---- MODULE Spec2Model ----
(***************************************************************************)
(* Conversation-orchestration core of QnAAgentAPI                          *)
(* (src/src/logic/chat/service.py): AgentService.process_message, the      *)
(* bounded tool-calling loop, ToolExecutor, MessageFormatter and the       *)
(* history optimisation of ConversationManager with its summary cache and  *)
(* background regeneration tasks.                                          *)
(*                                                                         *)
(* Conventions.                                                            *)
(*  - A Python str is a sequence of string fragments (an f-string is the   *)
(*    concatenation of its parts), so "" is << >> and "contains" is        *)
(*    decidable on fragments.                                              *)
(*  - An Optional value is a sequence of length at most one: None is << >> *)
(*    and a present value v is << v >>.                                    *)
(*  - One conversation (session_id) is modelled; every request, task and   *)
(*    row belongs to it.                                                   *)
(*  - Each database session is a transaction with its own pending writes;  *)
(*    commit publishes them atomically, rollback discards them.            *)
(***************************************************************************)
EXTENDS Integers, Sequences, FiniteSets, TLC

(***************************************************************************)
(* Program constants                                                       *)
(***************************************************************************)
MAX_AGENT_ITERATIONS == 5

MAX_RECENT_MESSAGES == 10

MAX_TOOL_RESULTS == 3

SUMMARIZE_THRESHOLD == 20

RESUMMARIZE_THRESHOLD == 10

\* `asyncio.wait_for(task, timeout=5.0)` in _try_get_from_task
WAIT_TIMEOUT == 5

SYSTEM_PROMPT == <<"You are a helpful AI assistant with access to a knowledge base.">>

(***************************************************************************)
(* Bounds of the exploration                                               *)
(***************************************************************************)
\* process_message calls (HTTP requests) a run can hold, concurrent or not
NumReq == 3

\* process_message calls of a run of Spec
MaxCalls == 2

\* most tool invocations the provider returns in one completion
MaxToolCalls == 2

\* completions carrying tool calls the provider returns to a call running
\* alone (CallSpec): enough to exhaust MAX_AGENT_ITERATIONS
MaxToolRounds == 5

\* completions carrying tool calls the provider returns over a run of Spec
MaxSharedRounds == 1

\* environment deviations over a whole run: a provider or persistence error,
\* a timeout, a second tool call or text content in a tool completion, a
\* malformed, unknown-tool or query-less invocation, a failing or empty
\* search, an absent or empty final text
MaxDeviations == 1

Req == 1..NumReq

(***************************************************************************)
(* Values                                                                  *)
(***************************************************************************)
None == << >>

Some(v) == << v >>

\* Python truthiness of an Optional[str]: None and "" are falsy
Truthy(opt) == opt # None /\ opt[1] # << >>

\* Python `opt or ""`
OrEmpty(opt) == IF Truthy(opt) THEN opt[1] ELSE << >>

Str(s) == << s >>

Contains(text, fragment) == \E i \in 1..Len(text) : text[i] = fragment

\* the user contents a request may carry (SendMessageRequest: min_length 1)
UserContents == { Str("Hello") }

\* the id of the conversation, and an id no session has
CONVERSATION == "conversation"

UNKNOWN_SESSION == "00000000-0000-0000-0000-000000000000"

\* the session ids a chat request may address
SessionIds == { CONVERSATION, UNKNOWN_SESSION }

\* the texts a final completion may carry: an answer, or (a deviation) an
\* absent or empty content
FinalContents == { None, Some(<< >>), Some(Str("answer")) }

FinalContentCost(content) == IF Truthy(content) THEN 0 ELSE 1

\* a truncated JSON document, as a model may emit it
MALFORMED == "{\"query\": "

\* raw argument strings of a tool invocation, by what json.loads makes of them
ArgumentStrings == { "{\"query\": \"python\"}", "{}", "[1]", MALFORMED }

ToolNames == { "search_kb", "get_weather" }

\* outcomes of KnowledgeBaseService.search
KbOutcomes == { "items", "empty", "raises" }

(***************************************************************************)
(* Tool execution (ToolExecutor, json.loads)                               *)
(***************************************************************************)
\* a parser that reads a truncated document as the empty object
json_loads_lenient(arguments) ==
    CASE arguments = "{\"query\": \"python\"}" ->
           [error |-> FALSE, kind |-> "dict", query |-> Some(Str("python"))]
      [] arguments = "[1]" ->
           [error |-> FALSE, kind |-> "list", query |-> None]
      [] OTHER ->
           [error |-> FALSE, kind |-> "dict", query |-> None]

\* json.loads on the raw argument string: a JSONDecodeError, or the parsed
\* value (a dict with or without "query", or a non-dict value)
json_loads(arguments) ==
    CASE arguments = "{\"query\": \"python\"}" ->
           [error |-> FALSE, kind |-> "dict", query |-> Some(Str("python"))]
      [] arguments = "{}" ->
           [error |-> FALSE, kind |-> "dict", query |-> None]
      [] arguments = "[1]" ->
           [error |-> FALSE, kind |-> "list", query |-> None]
      [] OTHER ->
           [error |-> TRUE, kind |-> "none", query |-> None]

Returned(text, searched) ==
    [raised |-> FALSE, text |-> text, exc |-> "", searched |-> searched]

Raised(exc, searched) ==
    [raised |-> TRUE, text |-> << >>, exc |-> exc, searched |-> searched]

\* KnowledgeBaseService.search as the executor sees it
kb_service_search(kb) ==
    CASE kb = "items"  -> Returned(<<"=== ", "python.txt", " ===\n", "Python is a language", "\n">>, TRUE)
      [] kb = "empty"  -> Returned(<< >>, TRUE)
      [] kb = "raises" -> Raised("OSError", TRUE)

\* the try body of ToolExecutor._execute_kb_search
kb_search_body(arguments, kb) ==
    IF arguments.kind # "dict"
    THEN Raised("AttributeError", FALSE)
    ELSE IF ~Truthy(arguments.query)
    THEN Returned(<<"Error: No search query provided. Please specify a query parameter.">>, FALSE)
    ELSE LET kb_items == kb_service_search(kb) IN
         IF kb_items.raised
         THEN kb_items
         ELSE IF kb_items.text = << >>
         THEN Returned(<<"No relevant information found in the knowledge base for your query.">>, TRUE)
         ELSE kb_items

\* ToolExecutor._execute_kb_search: its except clause turns any exception
\* of the body into an error text
execute_kb_search(arguments, kb) ==
    LET r == kb_search_body(arguments, kb) IN
    IF r.raised
    THEN Returned(<<"Error searching knowledge base: ", r.exc>>, r.searched)
    ELSE r

\* an executor that hands every tool name to the search
execute_body_without_dispatch(tool_name, arguments, kb) ==
    execute_kb_search(arguments, kb)

\* the try body of ToolExecutor.execute: dispatch on the tool name
execute_body(tool_name, arguments, kb) ==
    IF tool_name = "search_kb"
    THEN execute_kb_search(arguments, kb)
    ELSE Returned(<<"Error: Unknown tool '", tool_name, "'. Available tools: search_kb">>, FALSE)

\* ToolExecutor.execute
execute(tool_name, arguments, kb) ==
    LET r == execute_body(tool_name, arguments, kb) IN
    IF r.raised
    THEN Returned(<<"Error executing tool '", tool_name, "': ", r.exc>>, r.searched)
    ELSE r

INVALID_ARGUMENTS ==
    <<"Error: Invalid tool arguments (malformed JSON). Please try again with valid JSON.">>

\* the try/except of AgentService._execute_single_tool_call: the tool result
\* text, and whether the executor and the search capability were invoked
tool_result_of(tool_call, kb) ==
    LET function_args == json_loads(tool_call.arguments) IN
    IF function_args.error
    THEN [text |-> INVALID_ARGUMENTS, executed |-> FALSE, searched |-> FALSE, raised |-> FALSE]
    ELSE LET r == execute(tool_call.name, function_args, kb) IN
         IF r.raised
         THEN [text |-> <<"Critical error executing tool '", tool_call.name, "': ", r.exc>>,
               executed |-> TRUE, searched |-> r.searched, raised |-> FALSE]
         ELSE [text |-> r.text, executed |-> TRUE, searched |-> r.searched, raised |-> FALSE]

\* whether executing the invocation reaches KnowledgeBaseService.search
ReachesSearch(tool_call) ==
    LET a == json_loads(tool_call.arguments) IN
    ~a.error /\ tool_call.name = "search_kb" /\ a.kind = "dict" /\ Truthy(a.query)

(***************************************************************************)
(* MessageFormatter                                                        *)
(***************************************************************************)
SystemMessage ==
    [role |-> "system", content |-> SYSTEM_PROMPT, tool_calls |-> << >>, tool_call_id |-> 0]

ProviderMessage(role, content) ==
    [role |-> role, content |-> content, tool_calls |-> << >>, tool_call_id |-> 0]

RECURSIVE FormatTurns(_)
FormatTurns(turns) ==
    IF turns = << >> THEN << >>
    ELSE LET msg == Head(turns) IN
         (IF msg.role \in {"user", "assistant"}
          THEN << ProviderMessage(msg.role, msg.content) >>
          ELSE << >>) \o FormatTurns(Tail(turns))

\* a formatter that passes the turns of every role on
to_openai_messages_of_every_role(turns, include_system) ==
    (IF include_system THEN << SystemMessage >> ELSE << >>)
    \o [i \in 1..Len(turns) |-> ProviderMessage(turns[i].role, turns[i].content)]

to_openai_messages(turns, include_system) ==
    (IF include_system THEN << SystemMessage >> ELSE << >>) \o FormatTurns(turns)

create_assistant_message_with_tools(content, tool_calls) ==
    [role |-> "assistant", content |-> content, tool_calls |-> tool_calls, tool_call_id |-> 0]

create_tool_message(tool_call_id, content) ==
    [role |-> "tool", content |-> content, tool_calls |-> << >>, tool_call_id |-> tool_call_id]

(***************************************************************************)
(* Persisted rows                                                          *)
(***************************************************************************)
\* a row of the messages table (MessageModel / domain Message)
Turn(id, role, content, created_at) ==
    [id |-> id, role |-> role, content |-> content, created_at |-> created_at]

RECURSIVE OrderByCreatedAt(_)
\* ORDER BY created_at ASC over a set of rows
OrderByCreatedAt(rows) ==
    IF rows = {} THEN << >>
    ELSE LET first == CHOOSE x \in rows : \A y \in rows : x.created_at <= y.created_at
         IN  << first >> \o OrderByCreatedAt(rows \ {first})

SeqToSet(s) == { s[i] : i \in 1..Len(s) }

\* a conversation of n turns as sequential process_message calls leave it:
\* user and assistant alternate, ids and timestamps in creation order
PriorTurns(n) ==
    { Turn(i, IF i % 2 = 1 THEN "user" ELSE "assistant",
           IF i % 2 = 1 THEN Str("question") ELSE Str("reply"), i) : i \in 1..n }

\* a conversation of n turns as pairs of overlapping process_message calls
\* leave it: two user turns, then the two assistant turns
OverlappedTurns(n) ==
    { Turn(i, IF i % 4 \in {1, 2} THEN "user" ELSE "assistant",
           IF i % 4 \in {1, 2} THEN Str("question") ELSE Str("reply"), i) : i \in 1..n }

\* the places where a stored conversation may hold a tool-role turn
ToolPlaces == { 2, 5, 8, 11, 14 }

\* a stored conversation of n turns whose turns at the places in tools are
\* tool results
TurnsWithTools(n, tools) ==
    { Turn(i, IF i \in tools THEN "tool" ELSE IF i % 2 = 1 THEN "user" ELSE "assistant",
           IF i \in tools THEN Str("result") ELSE IF i % 2 = 1 THEN Str("question") ELSE Str("reply"),
           i) : i \in 1..n }

(***************************************************************************)
(* History optimisation (ConversationManager), pure parts                  *)
(***************************************************************************)
RECURSIVE PruneFrom(_, _, _)
\* the reversed scan of _prune_tool_messages: i runs from the newest turn
\* down to the oldest, tool_count counts the tool turns met so far
PruneFrom(messages, i, tool_count) ==
    IF i = 0 THEN << >>
    ELSE LET msg == messages[i]
             count == IF msg.role = "tool" THEN tool_count + 1 ELSE tool_count
         IN  IF msg.role = "tool" /\ count > MAX_TOOL_RESULTS
             THEN PruneFrom(messages, i - 1, count)
             ELSE PruneFrom(messages, i - 1, count) \o << msg >>

\* a scan that runs from the oldest turn to the newest
prune_tool_messages_oldest_first(messages) ==
    LET n == Len(messages)
        backwards == [i \in 1..n |-> messages[n + 1 - i]]
        kept == PruneFrom(backwards, n, 0)
    IN  [i \in 1..Len(kept) |-> kept[Len(kept) + 1 - i]]

prune_tool_messages(messages) == PruneFrom(messages, Len(messages), 0)

\* a split that counts one of the recent turns among the old ones
old_messages_one_more(messages) ==
    SubSeq(messages, 1, Len(messages) - MAX_RECENT_MESSAGES + 1)

\* messages[:-MAX_RECENT_MESSAGES]
old_messages(messages) ==
    SubSeq(messages, 1, Len(messages) - MAX_RECENT_MESSAGES)

\* a slice that starts one turn early
recent_messages_one_more(messages) ==
    SubSeq(messages, Len(messages) - MAX_RECENT_MESSAGES, Len(messages))

\* messages[-MAX_RECENT_MESSAGES:]
recent_messages(messages) ==
    SubSeq(messages, Len(messages) - MAX_RECENT_MESSAGES + 1, Len(messages))

\* load_conversation_history returns the loaded turns untouched
SkipsOptimization(all_messages) == Len(all_messages) <= SUMMARIZE_THRESHOLD

\* a check that summarises from the threshold on
NeedsSummaryFromThreshold(pruned_messages) == Len(pruned_messages) >= SUMMARIZE_THRESHOLD

\* load_conversation_history goes on to _summarize_old_messages
NeedsSummary(pruned_messages) == Len(pruned_messages) > SUMMARIZE_THRESHOLD

\* a lookup that still reuses a summary that is ten turns behind
ReusesCacheTenBehind(cached_summary, cached_count, message_count) ==
    Truthy(cached_summary) /\ message_count - cached_count <= RESUMMARIZE_THRESHOLD

\* _get_or_generate_summary reuses the cached text
ReusesCache(cached_summary, cached_count, message_count) ==
    Truthy(cached_summary) /\ message_count - cached_count < RESUMMARIZE_THRESHOLD

\* an optimiser that keeps only the recent turns when no summary is at hand
summarized_history_recent_only(messages, summary_content) ==
    LET recent == recent_messages(messages) IN
    IF Truthy(summary_content) /\ recent # << >> /\ recent[1].role = "user"
    THEN << [recent[1] EXCEPT !.content =
                <<"[Context from earlier in conversation: ">> \o summary_content[1]
                \o <<"]\n\n">> \o recent[1].content] >> \o Tail(recent)
    ELSE recent

\* the tail of _summarize_old_messages, given the resolved summary
summarized_history(messages, summary_content) ==
    LET recent == recent_messages(messages) IN
    IF ~Truthy(summary_content) THEN messages
    ELSE IF recent # << >> /\ recent[1].role = "user"
    THEN << [recent[1] EXCEPT !.content =
                <<"[Context from earlier in conversation: ">> \o summary_content[1]
                \o <<"]\n\n">> \o recent[1].content] >> \o Tail(recent)
    ELSE recent

ERROR_CONTENT ==
    <<"I apologize, but I encountered an issue processing your request. ", "Please try again.">>

\* a loop written as range(1, MAX_AGENT_ITERATIONS + 2)
LoopContinuesOnceMore(done) == done <= MAX_AGENT_ITERATIONS

\* `for iteration in range(1, MAX_AGENT_ITERATIONS + 1)`: after done
\* iterations another one follows
LoopContinues(done) == done < MAX_AGENT_ITERATIONS

(***************************************************************************)
(* State                                                                   *)
(***************************************************************************)
VARIABLES
    messages_table,       \* committed rows of the messages table
    updated_at,           \* committed chat_sessions.updated_at of the conversation
    summaries_table,      \* committed rows of conversation_summaries
    clock,                \* last value handed out by datetime.now / autoincrement
    wiring,               \* "per_request": get_agent_service builds an AgentService
                          \* per call; "shared": the calls run on one AgentService
    req,                  \* per process_message call: its locals and its transaction
    summarization_tasks,  \* ConversationManager._summarization_tasks, per manager
    task,                 \* per background task (named after the call that started it)
    env                   \* what the environment may still do: calls to start,
                          \* completions with tool calls, deviations

vars == << messages_table, updated_at, summaries_table, clock, wiring, req,
           summarization_tasks, task, env >>

\* the stores a run may start from: n committed turns and the summary row
\* that earlier calls can have left (none before the first optimisation or
\* after failed regenerations; count 11 written when 21 turns were loaded)
SummaryRow(message_count, summary_text) ==
    [message_count |-> message_count, summary_text |-> summary_text]

InitialStores ==
    { [n |-> 0,  cache |-> {}],
      [n |-> 18, cache |-> {}],
      [n |-> 20, cache |-> {}],
      [n |-> 22, cache |-> { SummaryRow(11, Str("summary-11")) }],
      [n |-> 30, cache |-> { SummaryRow(11, Str("summary-11")) }] }

NewRequest ==
    [pc |-> "idle", user_message |-> << >>, tx |-> << >>,
     pruned |-> << >>, history |-> << >>, was_summarized |-> FALSE,
     messages |-> << >>, iteration |-> 0, tool_calls |-> << >>, content |-> None,
     to_save |-> << >>, result |-> None, outcome |-> "none", error |-> "none",
     cached_summary |-> None, cached_count |-> 0, awaited |-> 0, waited |-> 0,
     session_id |-> None, http_status |-> 0,
     \* observations
     user_turn |-> None, loaded |-> << >>, loaded_count |-> 0,
     summary_content |-> None,
     provider_calls |-> 0, cache_reads |-> 0, tools_run |-> << >>,
     exhausted |-> FALSE]

NewTask ==
    [state |-> "none", cancel_requested |-> FALSE, manager |-> 0,
     messages |-> << >>, message_count |-> 0,
     previous_summary |-> None, previous_count |-> 0,
     provider |-> "none", summary |-> None, write |-> "none"]

Init ==
    /\ \E store \in InitialStores :
          /\ messages_table = PriorTurns(store.n)
          /\ updated_at = store.n
          /\ summaries_table = store.cache
          /\ clock = store.n
    /\ wiring \in {"per_request", "shared"}
    /\ req = [r \in Req |-> NewRequest]
    /\ summarization_tasks = [m \in Req |-> None]
    /\ task = [t \in Req |-> NewTask]
    /\ env = [calls |-> MaxCalls, rounds |-> MaxSharedRounds, deviations |-> MaxDeviations]

\* one process_message call running alone on the application's wiring
CallInit ==
    /\ \E store \in InitialStores :
          /\ messages_table = PriorTurns(store.n)
          /\ updated_at = store.n
          /\ summaries_table = store.cache
          /\ clock = store.n
    /\ wiring = "per_request"
    /\ req = [r \in Req |-> NewRequest]
    /\ summarization_tasks = [m \in Req |-> None]
    /\ task = [t \in Req |-> NewTask]
    /\ env = [calls |-> 1, rounds |-> MaxToolRounds, deviations |-> MaxDeviations]

\* the ConversationManager a call runs on (api/dependencies.py builds one
\* AgentService, hence one manager, per call)
manager_of(r) == IF wiring = "shared" THEN 1 ELSE r

Deviate(k) == k <= env.deviations

\* a query that does not see the rows its own transaction flushed
get_by_session_committed_only(r) == OrderByCreatedAt(messages_table)

\* get_by_session inside the call's transaction: the committed rows and the
\* call's own flushed rows, oldest first
get_by_session(r) ==
    OrderByCreatedAt(messages_table \cup SeqToSet(req[r].tx))

\* the locals of a call that returned or raised are gone; what stays is
\* what its caller and the observations keep
Forget(rq) ==
    [rq EXCEPT !.tx = << >>, !.pruned = << >>, !.history = << >>, !.messages = << >>,
               !.tool_calls = << >>, !.to_save = << >>, !.loaded = << >>,
               !.cached_summary = None, !.cached_count = 0, !.awaited = 0,
               !.waited = 0]

\* an exception of kind error leaves process_message: `except Exception:
\* await db_session.rollback(); raise` discards the transaction first
Raise(rq, error) ==
    [Forget(rq) EXCEPT !.pc = "failed", !.outcome = "raised", !.error = error,
                       !.result = None]

\* a handler that commits where it should roll back
after_rollback_keeping_rows(rows, tx) == rows \cup SeqToSet(tx)

\* the committed messages after `await db_session.rollback()` of a
\* transaction holding the flushed rows tx
after_rollback(rows, tx) == rows

(***************************************************************************)
(* Repositories                                                            *)
(***************************************************************************)
\* MessageRepository.create: add the row and flush it inside the transaction
message_repo_create(tx, role, content, now) ==
    Append(tx, Turn(now, role, content, now))

save_user_message(tx, content, now) == message_repo_create(tx, "user", content, now)

save_assistant_message(tx, content, now) == message_repo_create(tx, "assistant", content, now)

\* SummaryRepository.get_for_session: scalar_one_or_none over the rows
get_for_session(rows) ==
    IF rows = {} THEN [raised |-> FALSE, row |-> None]
    ELSE IF Cardinality(rows) = 1
    THEN [raised |-> FALSE, row |-> Some(CHOOSE x \in rows : TRUE)]
    ELSE [raised |-> TRUE, row |-> None]

\* a lookup that evicts the row it read
after_get_for_session_evicting(rows) == {}

\* the rows after SummaryRepository.get_for_session: a select, which leaves
\* them as they are
after_get_for_session(rows) == rows

\* ConversationManager._get_cached_summary: (summary_text, message_count)
get_cached_summary(row) ==
    IF row = None THEN [summary |-> None, count |-> 0]
    ELSE [summary |-> Some(row[1].summary_text), count |-> row[1].message_count]

(***************************************************************************)
(* Background regeneration: the registry                                   *)
(***************************************************************************)
\* asyncio.Task.done()
TaskDone(t) == task[t].state \in {"finished", "failed", "cancelled"}

\* a finally that leaves the entry in place
registry_cleanup_skipped(registry, m) == registry

\* `if session_id in self._summarization_tasks: del ...` in the finally of
\* _generate_and_cache_summary
registry_cleanup(registry, m) == [registry EXCEPT ![m] = None]

\* a task that is told the count of all pruned turns
created_task_counting_recent(r, m, messages, message_count, previous_summary, previous_count) ==
    [NewTask EXCEPT !.state = "created", !.manager = m,
                    !.messages = messages,
                    !.message_count = message_count + MAX_RECENT_MESSAGES,
                    !.previous_summary = previous_summary,
                    !.previous_count = previous_count]

\* the task _start_background_summarization creates for call r
created_task(r, m, messages, message_count, previous_summary, previous_count) ==
    [NewTask EXCEPT !.state = "created", !.manager = m,
                    !.messages = messages, !.message_count = message_count,
                    !.previous_summary = previous_summary,
                    !.previous_count = previous_count]

\* a start that leaves the registered task running
CancelsOnStartNever(registry, tasks, m, t) == FALSE

\* whether _start_background_summarization calls cancel() on task t
CancelsOnStart(registry, tasks, m, t) ==
    registry[m] = Some(t) /\ tasks[t].state \notin {"finished", "failed", "cancelled"}

\* _generate_new_summary -> _start_background_summarization of call r on
\* registry and tasks as they stand: cancel the registered unfinished task,
\* create the new one and register it
start_background_summarization(r, registry, tasks, cached_summary, cached_count) ==
    LET m == manager_of(r)
        old == old_messages(req[r].pruned)
        previous_summary == IF Truthy(cached_summary) THEN cached_summary ELSE None
        previous_count == IF Truthy(cached_summary) THEN cached_count ELSE 0
    IN  /\ task' = [t \in Req |->
                      IF t = r
                      THEN created_task(r, m, old, Len(old), previous_summary, previous_count)
                      ELSE IF CancelsOnStart(registry, tasks, m, t)
                      THEN [tasks[t] EXCEPT !.cancel_requested = TRUE]
                      ELSE tasks[t]]
        /\ summarization_tasks' = [registry EXCEPT ![m] = Some(r)]

(***************************************************************************)
(* process_message: the request path                                       *)
(***************************************************************************)
\* a resolution that falls back on the stale cached text
resolved_with_stale_cache(rq, summary_content) ==
    LET used == IF summary_content = None THEN rq.cached_summary ELSE summary_content IN
    [rq EXCEPT !.pc = "call", !.summary_content = used,
               !.history = summarized_history(rq.pruned, used),
               !.was_summarized = TRUE,
               !.messages = to_openai_messages(summarized_history(rq.pruned, used), TRUE)]

\* _get_or_generate_summary returned summary_content: the tail of
\* _summarize_old_messages, then to_openai_messages and _run_agent_loop
Resolved(rq, summary_content) ==
    [rq EXCEPT !.pc = "call", !.summary_content = summary_content,
               !.history = summarized_history(rq.pruned, summary_content),
               !.was_summarized = TRUE,
               !.messages = to_openai_messages(
                               summarized_history(rq.pruned, summary_content), TRUE)]

\* the history is resolved: to_openai_messages, then _run_agent_loop starts
Ready(rq, history, was_summarized) ==
    [rq EXCEPT !.pc = "call", !.history = history, !.was_summarized = was_summarized,
               !.messages = to_openai_messages(history, TRUE)]

\* a loader that optimises whatever the number of loaded turns
load_route_always_optimizing(all_messages, pruned_messages) ==
    IF Len(pruned_messages) <= MAX_RECENT_MESSAGES THEN "recent" ELSE "cache"

\* the branch load_conversation_history and _summarize_old_messages take
\* before any cache lookup: the loaded turns as they are, the pruned turns,
\* the pruned turns flagged as optimised, or on to the summary cache
load_route(all_messages, pruned_messages) ==
    IF SkipsOptimization(all_messages) THEN "all"
    ELSE IF ~NeedsSummary(pruned_messages) THEN "pruned"
    ELSE IF Len(pruned_messages) <= MAX_RECENT_MESSAGES THEN "recent"
    ELSE "cache"

\* process_message(session_id, user_message) starts: open the session and
\* save the user turn (flushed, not committed)
Start(r, session_id) ==
    /\ req[r].pc = "idle"
    /\ \A q \in Req : q < r => req[q].pc # "idle"
    /\ env.calls > 0
    /\ \E user_message \in UserContents :
          req' = [req EXCEPT ![r] =
                    LET tx == save_user_message(@.tx, user_message, clock + 1) IN
                    [@ EXCEPT !.pc = "load", !.user_message = user_message,
                              !.session_id = Some(session_id),
                              !.tx = tx, !.user_turn = Some(tx[Len(tx)])]]
    /\ clock' = clock + 1
    /\ env' = [env EXCEPT !.calls = @ - 1]
    /\ UNCHANGED << messages_table, updated_at, summaries_table, wiring,
                    summarization_tasks, task >>

\* a process_message call for the conversation
Begin(r) == Start(r, CONVERSATION)

\* the chat_sessions table: the row of the conversation
chat_sessions == { [id |-> CONVERSATION, updated_at |-> updated_at] }

\* SessionRepository.get_by_id: scalar_one_or_none over the rows of the id
get_by_id(session_id) ==
    LET found == { s \in chat_sessions : s.id = session_id } IN
    IF found = {} THEN None ELSE Some(CHOOSE s \in found : TRUE)

\* a verification that lets every id through
verify_session_exists_unchecked(session_id) ==
    [status |-> 200, session |-> Some([id |-> session_id, updated_at |-> 0])]

\* the dependency verify_session_exists: HTTPException 404 when
\* SessionService.get_session returns None, else the session
verify_session_exists(session_id) ==
    LET session == get_by_id(session_id) IN
    IF session = None
    THEN [status |-> 404, session |-> None]
    ELSE [status |-> 200, session |-> session]

\* the dependency raised: FastAPI answers with its status and the endpoint
\* body never runs
Reject(r, session_id, status) ==
    /\ req[r].pc = "idle"
    /\ \A q \in Req : q < r => req[q].pc # "idle"
    /\ env.calls > 0
    /\ req' = [req EXCEPT ![r] = [@ EXCEPT !.pc = "rejected",
                                           !.session_id = Some(session_id),
                                           !.http_status = status]]
    /\ env' = [env EXCEPT !.calls = @ - 1]
    /\ UNCHANGED << messages_table, updated_at, summaries_table, clock, wiring,
                    summarization_tasks, task >>

\* POST /sessions/{session_id}/chat: the dependencies are resolved first,
\* then send_message calls process_message with the id of the session found
send_message(r) ==
    \E session_id \in SessionIds :
        LET verified == verify_session_exists(session_id) IN
        IF verified.session = None
        THEN Reject(r, session_id, verified.status)
        ELSE Start(r, verified.session[1].id)

\* load_conversation_history up to the cache lookup of _summarize_old_messages
Load(r) ==
    /\ req[r].pc = "load"
    /\ LET all_messages == get_by_session(r)
           pruned_messages == prune_tool_messages(all_messages)
           route == load_route(all_messages, pruned_messages)
           rq == [req[r] EXCEPT !.loaded = all_messages,
                                !.loaded_count = Len(all_messages)]
       IN  req' = [req EXCEPT ![r] =
                     CASE route = "all"    -> Ready(rq, all_messages, FALSE)
                       [] route = "pruned" -> Ready(rq, pruned_messages, FALSE)
                       [] route = "recent" -> Ready(rq, pruned_messages, TRUE)
                       [] route = "cache"  ->
                            [rq EXCEPT !.pc = "cache", !.pruned = pruned_messages]]
    /\ UNCHANGED << messages_table, updated_at, summaries_table, clock, wiring,
                    summarization_tasks, task, env >>

\* _get_or_generate_summary from the cache read to its first suspension:
\* reuse the cached text, or wait on the registered task, or start a
\* regeneration and go on without a summary
GetCached(r) ==
    /\ req[r].pc = "cache"
    /\ LET found == get_for_session(summaries_table)
           cached == get_cached_summary(found.row)
           message_count == Len(old_messages(req[r].pruned))
           m == manager_of(r)
           rq == [req[r] EXCEPT !.cache_reads = @ + 1,
                                !.cached_summary = cached.summary,
                                !.cached_count = cached.count]
       IN  IF found.raised
           THEN /\ req' = [req EXCEPT ![r] = Raise(rq, "persistence")]
                /\ UNCHANGED << summarization_tasks, task >>
           ELSE IF ReusesCache(cached.summary, cached.count, message_count)
           THEN /\ req' = [req EXCEPT ![r] =
                            Resolved(rq, cached.summary)]
                /\ UNCHANGED << summarization_tasks, task >>
           ELSE IF summarization_tasks[m] # None /\ ~TaskDone(summarization_tasks[m][1])
           THEN /\ req' = [req EXCEPT ![r] =
                            [rq EXCEPT !.pc = "wait", !.awaited = summarization_tasks[m][1]]]
                /\ UNCHANGED << summarization_tasks, task >>
           ELSE /\ req' = [req EXCEPT ![r] =
                            Resolved(rq, None)]
                /\ start_background_summarization(r, summarization_tasks, task,
                                                  cached.summary, cached.count)
    /\ summaries_table' = after_get_for_session(summaries_table)
    /\ UNCHANGED << messages_table, updated_at, clock, wiring, env >>

\* a wait whose result is dropped
wait_for_result_dropped(tk) == None

\* `return await asyncio.wait_for(task, timeout=5.0)` on a task that
\* returned: the summary _generate_and_cache_summary returned
wait_for_result(tk) == tk.summary

\* _try_get_from_task: the awaited task completed within the bound.  Its
\* summary is returned; its exception, or its cancellation, is re-raised by
\* asyncio.wait_for into the call
WaitCompleted(r) ==
    /\ req[r].pc = "wait"
    /\ TaskDone(req[r].awaited)
    /\ LET t == req[r].awaited IN
       req' = [req EXCEPT ![r] =
                 CASE task[t].state = "finished" ->
                        Resolved(@, wait_for_result(task[t]))
                   [] task[t].state = "failed" -> Raise(@, "summarization")
                   [] task[t].state = "cancelled" ->
                        [Forget(@) EXCEPT !.pc = "failed", !.outcome = "cancelled"]]
    /\ UNCHANGED << messages_table, updated_at, summaries_table, clock, wiring,
                    summarization_tasks, task, env >>

\* a timer that lets one more unit pass
TimerExpiredOneLate(waited) == waited >= WAIT_TIMEOUT + 1

\* whether the timer of asyncio.wait_for has expired after waited units
TimerExpired(waited) == waited >= WAIT_TIMEOUT

\* the call is suspended in asyncio.wait_for on a task that has not ended
Waiting(r) == req[r].pc = "wait" /\ ~TaskDone(req[r].awaited)

\* the first step of task t is in the ready queue of the event loop
\* (asyncio.create_task schedules it with call_soon)
ReadyToStart(t) == task[t].state = "created"

\* a unit of time passes for every call suspended in asyncio.wait_for; an
\* expired timer is served before more time passes, and the event loop runs
\* its ready queue, the first step of a created task included, before it
\* sleeps
Tick ==
    /\ \E r \in Req : Waiting(r)
    /\ \A r \in Req : Waiting(r) => ~TimerExpired(req[r].waited)
    /\ \A t \in Req : ~ReadyToStart(t)
    /\ req' = [r \in Req |->
                 IF Waiting(r) THEN [req[r] EXCEPT !.waited = @ + 1] ELSE req[r]]
    /\ UNCHANGED << messages_table, updated_at, summaries_table, clock, wiring,
                    summarization_tasks, task, env >>

\* _try_get_from_task: the bound of 5 s elapses first.  asyncio.wait_for
\* cancels the awaited task and waits until the cancellation is done
WaitTimeout(r) ==
    /\ req[r].pc = "wait"
    /\ ~TaskDone(req[r].awaited)
    /\ TimerExpired(req[r].waited)
    /\ Deviate(1)
    /\ req' = [req EXCEPT ![r] = [@ EXCEPT !.pc = "timeout"]]
    /\ task' = [task EXCEPT ![req[r].awaited] = [@ EXCEPT !.cancel_requested = TRUE]]
    /\ env' = [env EXCEPT !.deviations = @ - 1]
    /\ UNCHANGED << messages_table, updated_at, summaries_table, clock, wiring,
                    summarization_tasks >>

\* the cancelled task has ended: TimeoutError is caught, None returned, and
\* _generate_new_summary starts a regeneration
AfterTimeout(r) ==
    /\ req[r].pc = "timeout"
    /\ TaskDone(req[r].awaited)
    /\ req' = [req EXCEPT ![r] = Resolved(@, None)]
    /\ start_background_summarization(r, summarization_tasks, task,
                                      req[r].cached_summary, req[r].cached_count)
    /\ UNCHANGED << messages_table, updated_at, summaries_table, clock, wiring, env >>

(***************************************************************************)
(* _run_agent_loop                                                         *)
(***************************************************************************)
ToolCall(id, name, arguments) == [id |-> id, name |-> name, arguments |-> arguments]

DefaultArguments == "{\"query\": \"python\"}"

\* the tool invocations a completion of iteration i may carry, and what
\* each list costs in deviations
RECURSIVE ToolCallListsOfLen(_, _)
ToolCallListsOfLen(i, n) ==
    IF n = 0 THEN { << >> }
    ELSE { Append(calls, ToolCall(10 * i + n, name, arguments)) :
             calls \in ToolCallListsOfLen(i, n - 1),
             name \in ToolNames, arguments \in ArgumentStrings }

ToolCallLists(i) == UNION { ToolCallListsOfLen(i, n) : n \in 1..MaxToolCalls }

ToolCallsCost(tool_calls) ==
    (Len(tool_calls) - 1)
    + Cardinality({ k \in 1..Len(tool_calls) : tool_calls[k].name # "search_kb" })
    + Cardinality({ k \in 1..Len(tool_calls) : tool_calls[k].arguments # DefaultArguments })

\* the texts a completion with tool calls may carry
ToolContents == { None, Some(Str("partial")) }

\* a loop that takes every completion for the final answer
HasToolCallsNever(tool_calls) == FALSE

\* `if llm_message.tool_calls:`
HasToolCalls(tool_calls) == tool_calls # << >>

\* one iteration of the loop from the completion call to the next
\* suspension: the provider returns llm_message; with tool calls
\* _handle_tool_calls appends the assistant message, otherwise
\* _save_final_response is next
handle_completion(rq, content, tool_calls) ==
    IF HasToolCalls(tool_calls)
    THEN [rq EXCEPT !.pc = "tools", !.content = content, !.tool_calls = tool_calls,
                    !.provider_calls = @ + 1,
                    !.messages = Append(@, create_assistant_message_with_tools(
                                              OrEmpty(content), tool_calls))]
    ELSE [rq EXCEPT !.pc = "save", !.content = content, !.tool_calls = tool_calls,
                    !.to_save = OrEmpty(content), !.provider_calls = @ + 1]

\* the provider answers with a final text
CompleteFinal(r) ==
    /\ req[r].pc = "call"
    /\ \E content \in FinalContents :
          /\ Deviate(FinalContentCost(content))
          /\ req' = [req EXCEPT ![r] = handle_completion(@, content, << >>)]
          /\ env' = [env EXCEPT !.deviations = @ - FinalContentCost(content)]
    /\ UNCHANGED << messages_table, updated_at, summaries_table, clock, wiring,
                    summarization_tasks, task >>

\* the provider answers with tool invocations
CompleteTools(r) ==
    /\ req[r].pc = "call"
    /\ env.rounds > 0
    /\ \E tool_calls \in ToolCallLists(req[r].iteration + 1), content \in ToolContents :
          LET cost == ToolCallsCost(tool_calls) + (IF content = None THEN 0 ELSE 1) IN
          /\ Deviate(cost)
          /\ req' = [req EXCEPT ![r] = handle_completion(@, content, tool_calls)]
          /\ env' = [env EXCEPT !.rounds = @ - 1, !.deviations = @ - cost]
    /\ UNCHANGED << messages_table, updated_at, summaries_table, clock, wiring,
                    summarization_tasks, task >>

\* create_chat_completion raises: process_message rolls back and re-raises
ProviderFails(r) ==
    /\ req[r].pc = "call"
    /\ Deviate(1)
    /\ req' = [req EXCEPT ![r] = [Raise(@, "provider") EXCEPT !.provider_calls = @ + 1]]
    /\ messages_table' = after_rollback(messages_table, req[r].tx)
    /\ env' = [env EXCEPT !.deviations = @ - 1]
    /\ UNCHANGED << updated_at, summaries_table, clock, wiring,
                    summarization_tasks, task >>

\* a loop that past its last iteration saves what the model said last
next_iteration_saving_model_content(rq) ==
    IF LoopContinues(rq.iteration + 1)
    THEN [rq EXCEPT !.pc = "call", !.iteration = @ + 1]
    ELSE [rq EXCEPT !.pc = "save", !.iteration = @ + 1, !.to_save = OrEmpty(rq.content),
                    !.exhausted = TRUE]

\* after the last tool of an iteration: the next iteration, or past the
\* loop _save_error_response
next_iteration(rq) ==
    IF LoopContinues(rq.iteration + 1)
    THEN [rq EXCEPT !.pc = "call", !.iteration = @ + 1]
    ELSE [rq EXCEPT !.pc = "save", !.iteration = @ + 1, !.to_save = ERROR_CONTENT,
                    !.exhausted = TRUE]

\* a handler that appends the tool message only when a tool really ran
execute_single_tool_call_skipping_failures(rq, tool_call, kb) ==
    LET tool_result == tool_result_of(tool_call, kb) IN
    IF ~tool_result.executed
    THEN rq
    ELSE [rq EXCEPT !.messages = Append(@, create_tool_message(
                                              tool_call.id, tool_result.text)),
                    !.tools_run = Append(@, [id |-> tool_call.id,
                                             name |-> tool_call.name,
                                             arguments |-> tool_call.arguments,
                                             kb |-> kb,
                                             text |-> tool_result.text,
                                             executed |-> tool_result.executed,
                                             searched |-> tool_result.searched])]

\* a handler that also stores the tool result as a turn of the conversation
execute_single_tool_call_saving_result(rq, tool_call, kb) ==
    LET tool_result == tool_result_of(tool_call, kb) IN
    [rq EXCEPT !.messages = Append(@, create_tool_message(
                                       tool_call.id, tool_result.text)),
               !.tx = Append(@, Turn(0, "tool", tool_result.text,
                                     rq.user_turn[1].created_at)),
               !.tools_run = Append(@, [id |-> tool_call.id,
                                        name |-> tool_call.name,
                                        arguments |-> tool_call.arguments,
                                        kb |-> kb,
                                        text |-> tool_result.text,
                                        executed |-> tool_result.executed,
                                        searched |-> tool_result.searched])]

\* _execute_single_tool_call on tool_call, the search capability behaving
\* as kb: the tool message is appended whatever happened
execute_single_tool_call(rq, tool_call, kb) ==
    LET tool_result == tool_result_of(tool_call, kb)
        appended == [rq EXCEPT !.messages = Append(@, create_tool_message(
                                                tool_call.id, tool_result.text)),
                               !.tools_run = Append(@, [id |-> tool_call.id,
                                                name |-> tool_call.name,
                                                arguments |-> tool_call.arguments,
                                                kb |-> kb,
                                                text |-> tool_result.text,
                                                executed |-> tool_result.executed,
                                                searched |-> tool_result.searched])]
    IN  IF tool_result.raised
        THEN Raise(rq, "tool")
        ELSE appended

\* a loop that walks the invocations backwards
next_tool_call_from_the_end(tool_calls) == tool_calls[Len(tool_calls)]

\* the next invocation `for tool_call in llm_message.tool_calls` handles
next_tool_call(tool_calls) == Head(tool_calls)

\* _handle_tool_calls: one pass of its for loop
ExecuteTool(r) ==
    /\ req[r].pc = "tools"
    /\ LET tool_call == next_tool_call(req[r].tool_calls) IN
       \E kb \in (IF ReachesSearch(tool_call) THEN KbOutcomes ELSE {"items"}) :
          LET cost == IF kb = "items" THEN 0 ELSE 1
              rq == execute_single_tool_call(req[r], tool_call, kb)
              rest == [rq EXCEPT !.tool_calls =
                         SelectSeq(@, LAMBDA c : c.id # tool_call.id)]
          IN  /\ Deviate(cost)
              /\ req' = [req EXCEPT ![r] =
                           IF rq.pc = "failed" THEN rq
                           ELSE IF rest.tool_calls = << >> THEN next_iteration(rest)
                           ELSE rest]
              /\ env' = [env EXCEPT !.deviations = @ - cost]
    /\ UNCHANGED << messages_table, updated_at, summaries_table, clock, wiring,
                    summarization_tasks, task >>

\* _save_final_response / _save_error_response: the assistant turn is
\* flushed into the transaction
SaveAssistant(r) ==
    /\ req[r].pc = "save"
    /\ req' = [req EXCEPT ![r] =
                 LET tx == save_assistant_message(@.tx, @.to_save, clock + 1) IN
                 [@ EXCEPT !.pc = "commit", !.tx = tx, !.result = Some(tx[Len(tx)])]]
    /\ clock' = clock + 1
    /\ UNCHANGED << messages_table, updated_at, summaries_table, wiring,
                    summarization_tasks, task, env >>

\* a unit of work that lost the user turn
committed_messages_without_first(rows, tx) == rows \cup SeqToSet(Tail(tx))

\* the committed messages after `await db_session.commit()` of a
\* transaction holding the flushed rows tx
committed_messages(rows, tx) == rows \cup SeqToSet(tx)

\* update_session_timestamp and commit: the transaction's rows and the
\* timestamp become visible together, and process_message returns
Commit(r) ==
    /\ req[r].pc = "commit"
    /\ messages_table' = committed_messages(messages_table, req[r].tx)
    /\ updated_at' = clock + 1
    /\ clock' = clock + 1
    /\ req' = [req EXCEPT ![r] = [Forget(@) EXCEPT !.pc = "done",
                                                   !.outcome = "returned"]]
    /\ UNCHANGED << summaries_table, wiring, summarization_tasks, task, env >>

\* a statement or the commit of the call's session raises
PersistenceFails(r) ==
    /\ req[r].pc \in {"load", "cache", "save", "commit"}
    /\ Deviate(1)
    /\ req' = [req EXCEPT ![r] = Raise(@, "persistence")]
    /\ messages_table' = after_rollback(messages_table, req[r].tx)
    /\ env' = [env EXCEPT !.deviations = @ - 1]
    /\ UNCHANGED << updated_at, summaries_table, clock, wiring,
                    summarization_tasks, task >>

(***************************************************************************)
(* Background regeneration: the task _generate_and_cache_summary           *)
(***************************************************************************)
\* an incremental prompt that takes the old turns from the first one
summary_prompt_from_first_turn(messages, previous_summary, previous_count) ==
    LET relevant_messages == SelectSeq(messages, LAMBDA msg : msg.role \in {"user", "assistant"})
    IN  IF Truthy(previous_summary) /\ previous_count > 0
        THEN [mode |-> "incremental", previous_summary |-> previous_summary,
              turns |-> relevant_messages]
        ELSE [mode |-> "full", previous_summary |-> None, turns |-> relevant_messages]

\* the prompt _generate_summary builds: incremental over the turns after
\* previous_count, or full over all user and assistant turns
summary_prompt(messages, previous_summary, previous_count) ==
    LET relevant_messages == SelectSeq(messages, LAMBDA msg : msg.role \in {"user", "assistant"})
    IN  IF Truthy(previous_summary) /\ previous_count > 0
        THEN [mode |-> "incremental", previous_summary |-> previous_summary,
              turns |-> SubSeq(relevant_messages, previous_count + 1, Len(relevant_messages))]
        ELSE [mode |-> "full", previous_summary |-> None, turns |-> relevant_messages]

\* a summary text the provider returns for a prompt
provider_summary(prompt) ==
    IF prompt.mode = "incremental"
    THEN prompt.previous_summary[1] \o <<" updated with ", ToString(Len(prompt.turns)), " turns">>
    ELSE <<"summary of ", ToString(Len(prompt.turns)), " turns">>

\* the task ends: `finally` drops the registry entry of its conversation
TaskEnds(t, state) ==
    /\ task' = [task EXCEPT ![t] = [@ EXCEPT !.state = state]]
    /\ summarization_tasks' = registry_cleanup(summarization_tasks, task[t].manager)

\* the event loop runs the created task up to its provider call
TaskStart(t) ==
    /\ task[t].state = "created"
    /\ ~task[t].cancel_requested
    /\ task' = [task EXCEPT ![t] = [@ EXCEPT !.state = "generating"]]
    /\ UNCHANGED << messages_table, updated_at, summaries_table, clock, wiring, req,
                    summarization_tasks, env >>

\* a check that lets an empty summary through
summary_accepted_always(content) == TRUE

\* _generate_summary: `if summary: return summary`, else ValueError
summary_accepted(content) == Truthy(content)

\* the task after the provider answered its summary request with content:
\* _generate_summary returns the text to _generate_and_cache_summary, which
\* opens its own session, or raises
TaskAnswered(t, content, provider) ==
    IF summary_accepted(content)
    THEN /\ task' = [task EXCEPT ![t] = [@ EXCEPT !.state = "caching",
                                         !.summary = content,
                                         !.provider = provider]]
         /\ UNCHANGED summarization_tasks
    ELSE /\ task' = [task EXCEPT ![t] = [@ EXCEPT !.state = "failed",
                                         !.provider = provider]]
         /\ summarization_tasks' = registry_cleanup(summarization_tasks, task[t].manager)

\* _generate_summary: the provider returns the summary text
TaskGenerated(t) ==
    /\ task[t].state = "generating"
    /\ ~task[t].cancel_requested
    /\ LET prompt == summary_prompt(task[t].messages, task[t].previous_summary,
                                    task[t].previous_count)
       IN  TaskAnswered(t, Some(provider_summary(prompt)), "text")
    /\ UNCHANGED << messages_table, updated_at, summaries_table, clock, wiring, req, env >>

\* _generate_summary raises: the provider call failed, or it returned an
\* empty content or none
TaskGenerationFails(t) ==
    /\ task[t].state = "generating"
    /\ ~task[t].cancel_requested
    /\ Deviate(1)
    /\ \/ /\ task' = [task EXCEPT ![t] = [@ EXCEPT !.state = "failed",
                                          !.provider = "raised"]]
          /\ summarization_tasks' = registry_cleanup(summarization_tasks, task[t].manager)
       \/ \E content \in {None, Some(<< >>)} : TaskAnswered(t, content, "empty")
    /\ env' = [env EXCEPT !.deviations = @ - 1]
    /\ UNCHANGED << messages_table, updated_at, summaries_table, clock, wiring, req >>

\* SummaryRepository.upsert: update the row found, or insert a new one
upsert_write(found) == IF found.row # None THEN "update" ELSE "insert"

\* _cache_summary -> upsert in the task's session: len(summary) of the log
\* line, which raises on None, then read, then flush
TaskCache(t) ==
    /\ task[t].state = "caching"
    /\ ~task[t].cancel_requested
    /\ LET found == get_for_session(summaries_table) IN
       IF task[t].summary = None \/ found.raised
       THEN TaskEnds(t, "failed")
       ELSE /\ task' = [task EXCEPT ![t] = [@ EXCEPT !.state = "committing",
                                            !.write = upsert_write(found)]]
            /\ UNCHANGED summarization_tasks
    /\ UNCHANGED << messages_table, updated_at, summaries_table, clock, wiring, req, env >>

\* an index on session_id that is not unique
ViolatesUniqueIndexNever(rows, write) == FALSE

\* the unique index idx_summaries_session_id rejects a second row
ViolatesUniqueIndex(rows, write) == write = "insert" /\ rows # {}

\* a commit that loses the inserted row
committed_summaries_updates_only(rows, write, row) ==
    IF write = "insert" THEN rows ELSE { row }

\* the rows after the task's write is committed
committed_summaries(rows, write, row) ==
    IF write = "insert" THEN rows \cup { row } ELSE { row }

\* db_session.commit() of the task, then `return summary`
TaskCommit(t) ==
    /\ task[t].state = "committing"
    /\ ~task[t].cancel_requested
    /\ IF ViolatesUniqueIndex(summaries_table, task[t].write)
       THEN /\ TaskEnds(t, "failed")
            /\ UNCHANGED summaries_table
       ELSE /\ TaskEnds(t, "finished")
            /\ summaries_table' = committed_summaries(summaries_table, task[t].write,
                                     SummaryRow(task[t].message_count, task[t].summary[1]))
    /\ UNCHANGED << messages_table, updated_at, clock, wiring, req, env >>

\* a statement or the commit of the task's session raises
TaskPersistenceFails(t) ==
    /\ task[t].state \in {"caching", "committing"}
    /\ ~task[t].cancel_requested
    /\ Deviate(1)
    /\ TaskEnds(t, "failed")
    /\ env' = [env EXCEPT !.deviations = @ - 1]
    /\ UNCHANGED << messages_table, updated_at, summaries_table, clock, wiring, req >>

\* CancelledError reaches the task: a task that never ran ends without
\* entering its try, a running one passes through its finally
TaskCancelled(t) ==
    /\ task[t].cancel_requested
    /\ task[t].state \in {"created", "generating", "caching", "committing"}
    /\ IF task[t].state = "created"
       THEN /\ task' = [task EXCEPT ![t] = [@ EXCEPT !.state = "cancelled"]]
            /\ UNCHANGED summarization_tasks
       ELSE TaskEnds(t, "cancelled")
    /\ UNCHANGED << messages_table, updated_at, summaries_table, clock, wiring, req, env >>

(***************************************************************************)
(* Specification                                                           *)
(***************************************************************************)
Next ==
    \/ \E r \in Req : Begin(r)
    \/ \E r \in Req : Load(r)
    \/ \E r \in Req : GetCached(r)
    \/ Tick
    \/ \E r \in Req : WaitCompleted(r)
    \/ \E r \in Req : WaitTimeout(r)
    \/ \E r \in Req : AfterTimeout(r)
    \/ \E r \in Req : CompleteFinal(r)
    \/ \E r \in Req : CompleteTools(r)
    \/ \E r \in Req : ProviderFails(r)
    \/ \E r \in Req : ExecuteTool(r)
    \/ \E r \in Req : SaveAssistant(r)
    \/ \E r \in Req : Commit(r)
    \/ \E r \in Req : PersistenceFails(r)
    \/ \E t \in Req : TaskStart(t)
    \/ \E t \in Req : TaskGenerated(t)
    \/ \E t \in Req : TaskGenerationFails(t)
    \/ \E t \in Req : TaskCache(t)
    \/ \E t \in Req : TaskCommit(t)
    \/ \E t \in Req : TaskPersistenceFails(t)
    \/ \E t \in Req : TaskCancelled(t)

Spec == Init /\ [][Next]_vars

\* a call running alone never waits on a task and no task is cancelled
CallNext ==
    \/ \E r \in Req : Begin(r)
    \/ \E r \in Req : Load(r)
    \/ \E r \in Req : GetCached(r)
    \/ \E r \in Req : CompleteFinal(r)
    \/ \E r \in Req : CompleteTools(r)
    \/ \E r \in Req : ProviderFails(r)
    \/ \E r \in Req : ExecuteTool(r)
    \/ \E r \in Req : SaveAssistant(r)
    \/ \E r \in Req : Commit(r)
    \/ \E r \in Req : PersistenceFails(r)
    \/ \E t \in Req : TaskStart(t)
    \/ \E t \in Req : TaskGenerated(t)
    \/ \E t \in Req : TaskGenerationFails(t)
    \/ \E t \in Req : TaskCache(t)
    \/ \E t \in Req : TaskCommit(t)
    \/ \E t \in Req : TaskPersistenceFails(t)

CallSpec == CallInit /\ [][CallNext]_vars

\* one call on a conversation long enough to be summarised, built by
\* sequential or by overlapping calls, with the summary row they left
HistoryInit ==
    /\ \E store \in { st \in InitialStores : st.n > SUMMARIZE_THRESHOLD } :
          /\ messages_table \in { PriorTurns(store.n), OverlappedTurns(store.n) }
          /\ updated_at = store.n
          /\ summaries_table = store.cache
          /\ clock = store.n
    /\ wiring = "per_request"
    /\ req = [r \in Req |-> NewRequest]
    /\ summarization_tasks = [m \in Req |-> None]
    /\ task = [t \in Req |-> NewTask]
    /\ env = [calls |-> 1, rounds |-> MaxToolRounds, deviations |-> MaxDeviations]

HistorySpec == HistoryInit /\ [][CallNext]_vars

\* load_conversation_history applied to stored conversations that hold up
\* to five tool-role turns: 19, 21 or 24 turns before the call
PruneInit ==
    /\ \E n \in {19, 21, 24}, tools \in SUBSET ToolPlaces :
          /\ messages_table = TurnsWithTools(n, tools)
          /\ updated_at = n
          /\ clock = n
    /\ summaries_table = {}
    /\ wiring = "per_request"
    /\ req = [r \in Req |-> NewRequest]
    /\ summarization_tasks = [m \in Req |-> None]
    /\ task = [t \in Req |-> NewTask]
    /\ env = [calls |-> 1, rounds |-> 0, deviations |-> 0]

PruneNext ==
    \/ \E r \in Req : Begin(r)
    \/ \E r \in Req : Load(r)
    \/ \E r \in Req : GetCached(r)
    \/ \E r \in Req : CompleteFinal(r)
    \/ \E r \in Req : SaveAssistant(r)
    \/ \E r \in Req : Commit(r)
    \/ \E t \in Req : TaskStart(t)
    \/ \E t \in Req : TaskGenerated(t)
    \/ \E t \in Req : TaskCache(t)
    \/ \E t \in Req : TaskCommit(t)

PruneSpec == PruneInit /\ [][PruneNext]_vars

\* one chat request through the HTTP endpoint: the call of CallSpec behind
\* the session verification
EndpointNext ==
    \/ \E r \in Req : send_message(r)
    \/ \E r \in Req : Load(r)
    \/ \E r \in Req : GetCached(r)
    \/ \E r \in Req : CompleteFinal(r)
    \/ \E r \in Req : CompleteTools(r)
    \/ \E r \in Req : ProviderFails(r)
    \/ \E r \in Req : ExecuteTool(r)
    \/ \E r \in Req : SaveAssistant(r)
    \/ \E r \in Req : Commit(r)
    \/ \E r \in Req : PersistenceFails(r)
    \/ \E t \in Req : TaskStart(t)
    \/ \E t \in Req : TaskGenerated(t)
    \/ \E t \in Req : TaskGenerationFails(t)
    \/ \E t \in Req : TaskCache(t)
    \/ \E t \in Req : TaskCommit(t)
    \/ \E t \in Req : TaskPersistenceFails(t)

EndpointSpec == CallInit /\ [][EndpointNext]_vars

\* the event loop runs a created task whenever it is ready: each step of
\* _generate_and_cache_summary that stays possible is taken
TaskFairness ==
    \A t \in Req :
        /\ WF_vars(TaskStart(t))
        /\ WF_vars(TaskGenerated(t))
        /\ WF_vars(TaskCache(t))
        /\ WF_vars(TaskCommit(t))

FairCallSpec == CallInit /\ [][CallNext]_vars /\ TaskFairness

\* calls that share one AgentService, hence one registry, on a conversation
\* long enough to be summarised; the provider answers each with a final text
SharedInit ==
    /\ \E store \in { st \in InitialStores : st.n = SUMMARIZE_THRESHOLD } :
          /\ messages_table = PriorTurns(store.n)
          /\ updated_at = store.n
          /\ summaries_table = store.cache
          /\ clock = store.n
    /\ wiring = "shared"
    /\ req = [r \in Req |-> NewRequest]
    /\ summarization_tasks = [m \in Req |-> None]
    /\ task = [t \in Req |-> NewTask]
    /\ env = [calls |-> NumReq, rounds |-> 0, deviations |-> MaxDeviations]

SharedNext ==
    \/ \E r \in Req : Begin(r)
    \/ \E r \in Req : Load(r)
    \/ \E r \in Req : GetCached(r)
    \/ Tick
    \/ \E r \in Req : WaitCompleted(r)
    \/ \E r \in Req : WaitTimeout(r)
    \/ \E r \in Req : AfterTimeout(r)
    \/ \E r \in Req : CompleteFinal(r)
    \/ \E r \in Req : ProviderFails(r)
    \/ \E r \in Req : SaveAssistant(r)
    \/ \E r \in Req : Commit(r)
    \/ \E r \in Req : PersistenceFails(r)
    \/ \E t \in Req : TaskStart(t)
    \/ \E t \in Req : TaskGenerated(t)
    \/ \E t \in Req : TaskGenerationFails(t)
    \/ \E t \in Req : TaskCache(t)
    \/ \E t \in Req : TaskCommit(t)
    \/ \E t \in Req : TaskPersistenceFails(t)
    \/ \E t \in Req : TaskCancelled(t)

SharedSpec == SharedInit /\ [][SharedNext]_vars

(***************************************************************************)
(* Properties of the agent loop                                            *)
(***************************************************************************)
\* the step completes a provider call of r without an exception
Completes(r) ==
    /\ req'[r].provider_calls = req[r].provider_calls + 1
    /\ req'[r].pc # "failed"

\* C1: a process_message call makes at most MAX_AGENT_ITERATIONS = 5
\* completion calls to the provider, whatever the provider answers
C1_AtMostFiveProviderCalls ==
    \A r \in Req : req[r].provider_calls <= 5

\* a call that spent all five completion calls and returned
C1_Witness ==
    \E r \in Req : req[r].provider_calls = 5 /\ req[r].outcome = "returned"

C3_FinalContent ==
    \A r \in Req :
       (~req[r].exhausted /\ req[r].pc \in {"save", "commit", "done"}) =>
          /\ req[r].tool_calls = << >>
          /\ req[r].pc = "save" => req[r].to_save = OrEmpty(req[r].content)
          /\ req[r].pc \in {"commit", "done"} =>
                /\ req[r].result # None
                /\ req[r].result[1].role = "assistant"
                /\ req[r].result[1].content = OrEmpty(req[r].content)
          /\ req[r].pc = "done" => req[r].result[1] \in messages_table

\* C3 (steps): a completion with tool calls moves the loop from awaiting the
\* provider to executing tools and a completion without tool calls ends the
\* loop; tools run only while executing, and executing ends in awaiting the
\* provider again or in the exhausted loop; once the final completion is in,
\* no provider call and no tool follows
C3_LoopSteps ==
    \A r \in Req :
       /\ Completes(r) =>
             /\ req[r].pc = "call"
             /\ IF req'[r].tool_calls # << >>
                THEN req'[r].pc = "tools"
                ELSE req'[r].pc = "save" /\ ~req'[r].exhausted
       /\ req'[r].tools_run # req[r].tools_run =>
             /\ req[r].pc = "tools"
             /\ req'[r].pc \in {"tools", "call", "save"}
             /\ req'[r].pc = "save" => req'[r].exhausted
       /\ req[r].pc \in {"save", "commit", "done"} =>
             /\ req'[r].provider_calls = req[r].provider_calls
             /\ req'[r].tools_run = req[r].tools_run
             /\ req'[r].content = req[r].content

\* C3: the loop follows AWAITING -> EXECUTING -> AWAITING and stops at the
\* first completion without tool calls: no further provider call or tool,
\* and the persisted assistant content is exactly that completion's content
\* (the empty string when it is absent)
C3_StopsAtFirstFinalCompletion ==
    []C3_FinalContent /\ [][C3_LoopSteps]_vars

\* a call returned the empty string for an absent content after a tool round
C3_Witness ==
    \E r \in Req :
       /\ req[r].pc = "done" /\ ~req[r].exhausted
       /\ req[r].provider_calls = 2 /\ req[r].tools_run # << >>
       /\ req[r].content = None
       /\ req[r].result[1].content = << >>

(***************************************************************************)
(* Properties of tool handling                                             *)
(***************************************************************************)
\* the calls whose in-memory message list exists
InLoop == { "call", "tools", "save", "commit" }

IsToolRequest(msg) == msg.role = "assistant" /\ msg.tool_calls # << >>

\* positions of the assistant messages that record tool invocations
ToolRequests(m) == { j \in 1..Len(m) : IsToolRequest(m[j]) }

\* the tool-request message a position belongs to (0 when there is none)
RequestOf(m, p) ==
    LET before == { j \in ToolRequests(m) : j < p } IN
    IF before = {} THEN 0 ELSE CHOOSE j \in before : \A k \in before : k <= j

\* how many messages follow the tool request at j before the next one
Following(m, j) ==
    LET later == { k \in ToolRequests(m) : k > j }
        stop == IF later = {} THEN Len(m) + 1
                ELSE CHOOSE k \in later : \A l \in later : k <= l
    IN  stop - j - 1

\* the tool messages of m tagged with id
TaggedWith(m, id) == { p \in 1..Len(m) : m[p].role = "tool" /\ m[p].tool_call_id = id }

\* C4: within one iteration whose completion carries the invocations
\* t1..tn the message list grows by one assistant message recording t1..tn
\* followed by the tool-result messages of t1..tn in that order, one at a
\* time, and all of them are in the list before the next completion call
C4_ToolResultsInOrder ==
    \A r \in Req :
       req[r].pc \in InLoop =>
          LET m == req[r].messages
              formatted == to_openai_messages(req[r].history, TRUE)
              h == Len(formatted)
              running == req[r].pc = "tools"
          IN  /\ Len(m) >= h /\ SubSeq(m, 1, h) = formatted
              /\ Cardinality({ j \in ToolRequests(m) : j > h }) =
                    req[r].iteration + (IF running THEN 1 ELSE 0)
              /\ \A p \in (h + 1)..Len(m) :
                    \/ IsToolRequest(m[p])
                    \/ /\ m[p].role = "tool"
                       /\ RequestOf(m, p) > h
                       /\ LET j == RequestOf(m, p) IN
                          /\ p - j <= Len(m[j].tool_calls)
                          /\ m[p].tool_call_id = m[j].tool_calls[p - j].id
              /\ \A j \in ToolRequests(m) :
                    j > h =>
                       LET n == Len(m[j].tool_calls) IN
                       IF running /\ j = RequestOf(m, Len(m) + 1)
                       THEN /\ Following(m, j) < n
                            /\ req[r].tool_calls =
                                  SubSeq(m[j].tool_calls, Following(m, j) + 1, n)
                       ELSE Following(m, j) = n

\* before the next completion call the list ends with an assistant message
\* recording two invocations and their two results in that order
C4_Witness ==
    \E r \in Req :
       /\ req[r].pc = "call" /\ req[r].iteration = 1
       /\ LET m == req[r].messages IN
          /\ Len(m) >= 3
          /\ IsToolRequest(m[Len(m) - 2])
          /\ Len(m[Len(m) - 2].tool_calls) = 2
          /\ m[Len(m) - 1].tool_call_id = m[Len(m) - 2].tool_calls[1].id
          /\ m[Len(m)].tool_call_id = m[Len(m) - 2].tool_calls[2].id

\* C5: every tool invocation gets exactly one tool-result message tagged
\* with its id, whether its arguments are malformed, its name is unknown, the
\* search raises or it succeeds, and no tool failure makes process_message
\* raise
C5_OneResultPerInvocation ==
    \A r \in Req :
       /\ req[r].error # "tool"
       /\ req[r].pc \in InLoop =>
             LET m == req[r].messages
                 pending == { req[r].tool_calls[k].id : k \in 1..Len(req[r].tool_calls) }
             IN  /\ \A j \in ToolRequests(m) :
                       \A i \in 1..Len(m[j].tool_calls) :
                          LET id == m[j].tool_calls[i].id IN
                          Cardinality(TaggedWith(m, id)) =
                             IF req[r].pc = "tools" /\ id \in pending THEN 0 ELSE 1
                 /\ Cardinality({ p \in 1..Len(m) : m[p].role = "tool" }) =
                       Len(req[r].tools_run)
                 /\ \A k \in 1..Len(req[r].tools_run) :
                       \E p \in TaggedWith(m, req[r].tools_run[k].id) :
                          m[p].content = req[r].tools_run[k].text

\* a search that raised left its one tool message and the call returned
C5_Witness ==
    \E r \in Req :
       /\ req[r].outcome = "returned"
       /\ \E k \in 1..Len(req[r].tools_run) :
             /\ req[r].tools_run[k].kb = "raises"
             /\ req[r].tools_run[k].searched
             /\ req[r].tools_run[k].text = <<"Error searching knowledge base: ", "OSError">>

\* C6 (states): an invocation whose argument string is malformed JSON never
\* reaches the executor or the search and its result is the fixed
\* invalid-arguments text
C6_MalformedNotExecuted ==
    \A r \in Req :
       \A k \in 1..Len(req[r].tools_run) :
          req[r].tools_run[k].arguments = MALFORMED =>
             /\ ~req[r].tools_run[k].executed
             /\ ~req[r].tools_run[k].searched
             /\ req[r].tools_run[k].text = INVALID_ARGUMENTS

\* C6 (steps): handling such an invocation raises nothing, appends the tool
\* message with the fixed text and leaves the loop going
C6_MalformedStep ==
    \A r \in Req :
       (/\ req[r].pc = "tools"
        /\ next_tool_call(req[r].tool_calls).arguments = MALFORMED
        /\ req'[r] # req[r]) =>
          /\ req'[r].pc \in {"tools", "call", "save"}
          /\ req'[r].error = "none"
          /\ req'[r].messages =
                Append(req[r].messages,
                       create_tool_message(next_tool_call(req[r].tool_calls).id,
                                           INVALID_ARGUMENTS))

\* C6: malformed argument JSON: the executor is not invoked, the fixed
\* invalid-arguments text is appended as the tool result, nothing is raised
\* and the loop proceeds
C6_MalformedArguments ==
    []C6_MalformedNotExecuted /\ [][C6_MalformedStep]_vars

\* after a malformed invocation the loop went on to another completion and
\* the call returned
C6_Witness ==
    \E r \in Req :
       /\ req[r].outcome = "returned" /\ req[r].provider_calls = 2
       /\ Len(req[r].tools_run) = 1
       /\ req[r].tools_run[1].arguments = MALFORMED
       /\ req[r].tools_run[1].text = INVALID_ARGUMENTS

\* C7: ToolExecutor.execute never raises: a name other than search_kb yields
\* a text containing "Unknown tool" without calling the search, and a search
\* that raises yields an error text; this holds for every input and for
\* every invocation the loop executed
C7_ExecuteNeverRaises ==
    /\ \A tool_name \in ToolNames, arguments \in ArgumentStrings \ {MALFORMED},
          kb \in KbOutcomes :
          LET out == execute(tool_name, json_loads(arguments), kb) IN
          /\ ~out.raised
          /\ tool_name # "search_kb" =>
                Contains(out.text, "Error: Unknown tool '") /\ ~out.searched
          /\ (out.searched /\ kb = "raises") =>
                out.text = <<"Error searching knowledge base: ", "OSError">>
    /\ \A r \in Req :
          \A k \in 1..Len(req[r].tools_run) :
             LET e == req[r].tools_run[k] IN
             e.executed =>
                /\ e.text = execute(e.name, json_loads(e.arguments), e.kb).text
                /\ e.name # "search_kb" =>
                      Contains(e.text, "Error: Unknown tool '") /\ ~e.searched
                /\ (e.searched /\ e.kb = "raises") =>
                      e.text = <<"Error searching knowledge base: ", "OSError">>

\* the loop executed an invocation of an unknown tool
C7_Witness ==
    \E r \in Req :
       \E k \in 1..Len(req[r].tools_run) :
          /\ req[r].tools_run[k].name = "get_weather"
          /\ req[r].tools_run[k].executed
          /\ ~req[r].tools_run[k].searched
          /\ Contains(req[r].tools_run[k].text, "Error: Unknown tool '")

(***************************************************************************)
(* Properties of the unit of work                                          *)
(***************************************************************************)
Raises(r) == req[r].outcome = "none" /\ req'[r].outcome = "raised"

Returns(r) == req[r].outcome = "none" /\ req'[r].outcome = "returned"

\* C8 (states): nothing a call that raised had flushed is committed
C8_NothingPersisted ==
    \A r \in Req :
       req[r].outcome = "raised" =>
          /\ req[r].result = None
          /\ req[r].user_turn # None => req[r].user_turn[1] \notin messages_table
          /\ \A row \in messages_table :
                req[r].user_turn # None => row.id # req[r].user_turn[1].id

\* C8 (steps): a provider call that fails makes the call raise, and the step
\* in which a call raises leaves the committed turns and the activity
\* timestamp as they were
C8_RaiseStep ==
    \A r \in Req :
       /\ (req'[r].provider_calls # req[r].provider_calls /\ req'[r].pc = "failed") =>
             req'[r].outcome = "raised" /\ req'[r].error = "provider"
       /\ Raises(r) =>
             /\ messages_table' = messages_table
             /\ updated_at' = updated_at

\* C8: when the provider fails at any iteration, or a persistence step
\* fails, the whole unit of work is rolled back and the exception re-raised:
\* the persisted turns and the activity timestamp are as before and the
\* user turn is not persisted
C8_FailureRollsBack ==
    []C8_NothingPersisted /\ [][C8_RaiseStep]_vars

\* the provider failed in the second iteration, after a tool round, and the
\* flushed user turn is not among the committed turns
C8_Witness ==
    \E r \in Req :
       /\ req[r].outcome = "raised" /\ req[r].error = "provider"
       /\ req[r].provider_calls = 2 /\ req[r].tools_run # << >>
       /\ req[r].user_turn # None
       /\ req[r].user_turn[1] \notin messages_table

\* C9 (states): the user turn of a call is committed exactly when the call
\* has returned, and then its assistant turn is committed too; no state has
\* the one without the other
C9_BothOrNeither ==
    \A r \in Req :
       req[r].user_turn # None =>
          /\ req[r].user_turn[1] \in messages_table <=> req[r].outcome = "returned"
          /\ req[r].outcome = "returned" =>
                req[r].result # None /\ req[r].result[1] \in messages_table
          /\ (req[r].outcome # "returned" /\ req[r].result # None) =>
                req[r].result[1] \notin messages_table

\* C9 (steps): the step in which a call returns adds exactly its user turn,
\* holding the given content, and its later assistant turn to the committed
\* turns and advances the activity timestamp; no other step changes either
C9_CommitStep ==
    /\ \A r \in Req :
          Returns(r) =>
             LET user == req'[r].user_turn[1]
                 assistant == req'[r].result[1]
             IN  /\ messages_table \subseteq messages_table'
                 /\ messages_table' \ messages_table = { user, assistant }
                 /\ Cardinality(messages_table') = Cardinality(messages_table) + 2
                 /\ user.role = "user" /\ user.content = req'[r].user_message
                 /\ assistant.role = "assistant"
                 /\ user.created_at < assistant.created_at
                 /\ updated_at' > updated_at
                 /\ updated_at' > assistant.created_at
    /\ (messages_table' # messages_table \/ updated_at' # updated_at) =>
          \E r \in Req : Returns(r)

\* C9: every successful process_message adds exactly two persisted turns,
\* the user turn with the given content and then the assistant turn, and
\* updates the activity timestamp, in a single commit: no state with only
\* the user turn committed is ever visible
C9_TwoTurnsOneCommit ==
    []C9_BothOrNeither /\ [][C9_CommitStep]_vars

\* a call on a conversation of 18 turns returned and left 20
C9_Witness ==
    \E r \in Req :
       /\ req[r].outcome = "returned"
       /\ Cardinality(messages_table) = 20
       /\ req[r].user_turn[1] \in messages_table
       /\ req[r].result[1] \in messages_table
       /\ updated_at > req[r].result[1].created_at

(***************************************************************************)
(* Properties of the history loader                                        *)
(***************************************************************************)
Ascending(turns) ==
    \A i, j \in 1..Len(turns) : i < j => turns[i].created_at < turns[j].created_at

\* C10: when the loaded turn count, the user turn just appended included,
\* is at most SUMMARIZE_THRESHOLD = 20, load_conversation_history returns
\* exactly the loaded turns in order with the flag false, without reading
\* the summary cache and without starting a background regeneration
C10_ShortHistoryUntouched ==
    \A r \in Req :
       /\ (req[r].pc \in InLoop /\ Len(req[r].loaded) <= 20) =>
             /\ req[r].history = req[r].loaded
             /\ Len(req[r].history) = req[r].loaded_count
             /\ Ascending(req[r].history)
             /\ req[r].user_turn[1] \in SeqToSet(req[r].history)
             /\ SeqToSet(req[r].history) \subseteq messages_table \cup { req[r].user_turn[1] }
             /\ req[r].messages # << >>
             /\ SubSeq(req[r].messages, 1, Len(req[r].history) + 1) =
                   to_openai_messages(req[r].loaded, TRUE)
       /\ (req[r].loaded_count >= 1 /\ req[r].loaded_count <= 20) =>
             /\ ~req[r].was_summarized
             /\ req[r].cache_reads = 0
             /\ task[r].state = "none"
             /\ \A m \in Req : summarization_tasks[m] # Some(r)

\* a call that loaded 19 turns runs its loop on exactly these
C10_Witness ==
    \E r \in Req :
       /\ req[r].pc = "call"
       /\ Len(req[r].loaded) = 19 /\ req[r].loaded_count = 19
       /\ req[r].history = req[r].loaded
       /\ ~req[r].was_summarized /\ req[r].cache_reads = 0

(***************************************************************************)
(* Properties of the summary cache and the background regeneration         *)
(***************************************************************************)
\* the step is the cache lookup of call r and the call goes on
ResolvesSummary(r) ==
    /\ req[r].pc = "cache"
    /\ req'[r] # req[r]
    /\ req'[r].pc # "failed"

\* an unfinished task is registered on the manager of call r
InFlight(r) ==
    /\ summarization_tasks[manager_of(r)] # None
    /\ ~TaskDone(summarization_tasks[manager_of(r)][1])

Started == { t \in Req : task[t].state # "none" }

StartedNext == { t \in Req : task'[t].state # "none" }

\* C11 (steps): the cache lookup of a call that finds no summary row and no
\* regeneration in flight starts the one task of the call, over the old
\* turns, registers it and goes on with the full pruned sequence; a task is
\* never created a second time
C11_Step ==
    \A r \in Req :
       /\ (ResolvesSummary(r) /\ summaries_table = {} /\ ~InFlight(r)) =>
             /\ req'[r].pc = "call"
             /\ req'[r].history = req[r].pruned
             /\ Len(req'[r].history) = req[r].loaded_count
             /\ req[r].loaded_count > 20
             /\ task[r].state = "none" /\ task'[r].state = "created"
             /\ StartedNext = Started \cup {r}
             /\ task'[r].messages = old_messages(req[r].pruned)
             /\ task'[r].message_count = req[r].loaded_count - 10
             /\ summarization_tasks'[manager_of(r)] = Some(r)
             /\ req'[r].provider_calls = req[r].provider_calls
       /\ (task[r].state # "none" /\ task'[r].state = "created") =>
             task[r].state = "created"

\* C11 (states): on the application's wiring the cache lookup never finds a
\* regeneration in flight, and a call that loaded at most 20 turns has no
\* task
C11_State ==
    \A r \in Req :
       /\ (wiring = "per_request" /\ req[r].pc = "cache") => ~InFlight(r)
       /\ (req[r].loaded_count >= 1 /\ req[r].loaded_count <= 20) =>
             task[r].state = "none"

\* C11: for a conversation with more than 20 turns and no cached summary one
\* load_conversation_history call triggers exactly one background
\* regeneration and returns the full pruned sequence, not summarised for
\* this call
C11_OneRegenerationNoSummary ==
    []C11_State /\ [][C11_Step]_vars

\* a call that loaded 21 turns and found no summary row runs its loop on all
\* 21 while its task is created
C11_Witness ==
    \E r \in Req :
       /\ req[r].pc = "call" /\ req[r].loaded_count = 21
       /\ req[r].cache_reads = 1 /\ req[r].cached_summary = None
       /\ req[r].history = req[r].loaded
       /\ task[r].state = "created"
       /\ summarization_tasks[manager_of(r)] = Some(r)

\* the summary row the cache lookup of a call reads
CachedRow == CHOOSE row \in summaries_table : TRUE

\* the number of old turns of call r: the pruned turns but the last ten
OldCount(r) == Len(old_messages(req[r].pruned))

\* C12 (steps): a cache lookup that finds a non-empty summary covering c
\* turns with fewer than ten old turns beyond c returns that text as it is,
\* without a provider call, without waiting on a registered task and without
\* starting or cancelling a task; with ten or more old turns beyond c it
\* does not return the cached text
C12_Step ==
    \A r \in Req :
       (ResolvesSummary(r) /\ Cardinality(summaries_table) = 1) =>
          IF /\ CachedRow.summary_text # << >>
             /\ OldCount(r) - CachedRow.message_count < 10
          THEN /\ req'[r].pc = "call"
               /\ req'[r].summary_content = Some(CachedRow.summary_text)
               /\ req'[r].history =
                     summarized_history(req[r].pruned, Some(CachedRow.summary_text))
               /\ req'[r].provider_calls = req[r].provider_calls
               /\ task' = task
               /\ summarization_tasks' = summarization_tasks
          ELSE /\ req'[r].summary_content # Some(CachedRow.summary_text)
               /\ \/ req'[r].pc = "wait"
                  \/ req'[r].pc = "call" /\ task'[r].state = "created"

\* C12 (states): a call whose lookup found the cached text ten or more old
\* turns behind never runs on that text
C12_State ==
    \A r \in Req :
       (/\ req[r].pc \in InLoop /\ req[r].cache_reads = 1
        /\ req[r].cached_summary # None
        /\ OldCount(r) - req[r].cached_count >= 10) =>
          req[r].summary_content # req[r].cached_summary

\* C12: when a non-empty cached summary covering c turns exists and
\* oldCount - c < RESUMMARIZE_THRESHOLD = 10 the resolve step returns the
\* cached text verbatim, makes no provider call, does not wait on the task
\* registry and starts no regeneration; when oldCount - c >= 10 the cached
\* text is not returned for this call
C12_CacheReuse ==
    []C12_State /\ [][C12_Step]_vars

\* a call with 13 old turns reused the summary covering 11 and started no task
C12_Witness ==
    \E r \in Req :
       /\ req[r].pc = "call" /\ req[r].loaded_count = 23
       /\ req[r].cache_reads = 1
       /\ req[r].cached_count = 11
       /\ req[r].summary_content = Some(Str("summary-11"))
       /\ task[r].state = "none"
       /\ summarization_tasks[manager_of(r)] = None

\* the step creates the task of call r
Creates(r) == task[r].state = "none" /\ task'[r].state = "created"

\* C13 (steps): a start while an unfinished task is registered for the
\* conversation requests the cancellation of that task and of no other, and
\* the registry entry becomes the new task
C13_Step ==
    \A r \in Req :
       Creates(r) =>
          LET m == task'[r].manager IN
          /\ summarization_tasks'[m] = Some(r)
          /\ \A t \in Req \ {r} :
                IF summarization_tasks[m] = Some(t) /\ ~TaskDone(t)
                THEN task'[t].cancel_requested /\ task'[t].state = task[t].state
                ELSE task'[t] = task[t]

\* C13 (states): the registry of a manager holds at most one task for the
\* conversation, a task that was started on that manager
C13_State ==
    \A m \in Req :
       /\ Len(summarization_tasks[m]) <= 1
       /\ summarization_tasks[m] # None =>
             /\ summarization_tasks[m][1] \in Req
             /\ task[summarization_tasks[m][1]].state # "none"
             /\ task[summarization_tasks[m][1]].manager = m

\* C13: starting a regeneration for a conversation while an unfinished one
\* is registered for it cancels the prior one and replaces its registry
\* entry with the new task; the registry never holds more than one entry per
\* conversation
C13_StartCancelsAndReplaces ==
    []C13_State /\ [][C13_Step]_vars

\* a call that had waited on one task started its own while a third,
\* unfinished task was registered: that task is asked to cancel and the
\* registry holds the new one
C13_Witness ==
    \E r \in Req : \E t \in Req \ {r} :
       /\ req[r].pc = "call" /\ req[r].awaited \notin {0, t}
       /\ task[r].state = "created"
       /\ summarization_tasks[manager_of(r)] = Some(r)
       /\ task[t].manager = manager_of(r)
       /\ task[t].cancel_requested /\ ~TaskDone(t)

\* the regenerations that are live: started, not ended, not asked to cancel
LiveTasks ==
    { t \in Req : task[t].state \in {"created", "generating", "caching", "committing"}
                  /\ ~task[t].cancel_requested }

\* C14: in every reachable state, under any interleaving of process_message
\* calls and background tasks, at most one unfinished background
\* regeneration exists for the conversation
C14_AtMostOneLiveRegeneration ==
    Cardinality(LiveTasks) <= 1

\* on one shared AgentService at most one regeneration is live
C14_SharedAtMostOneLive ==
    wiring = "shared" => Cardinality(LiveTasks) <= 1

\* C15: the cancellation of a background regeneration never surfaces in a
\* process_message call: no call fails or is aborted because a task was
\* cancelled, a call waiting on the task when it is cancelled included
C15_CancellationNeverSurfaces ==
    \A r \in Req : req[r].outcome # "cancelled"

\* the call's wait on a regeneration has run into the 5 s bound
TimedOut(r) == req[r].pc = "timeout"

\* C16: a call that times out waiting on a regeneration does not cancel it:
\* after the timeout the awaited task is still running, not asked to
\* cancel, and can go on to write the summary cache
C16_TimeoutLeavesTaskRunning ==
    \A r \in Req :
        TimedOut(r) =>
            /\ ~task[req[r].awaited].cancel_requested
            /\ task[req[r].awaited].state # "cancelled"

\* with one AgentService per request no call waits and no task is cancelled
PerRequestNeverWaits ==
    wiring = "per_request" =>
        /\ \A r \in Req : req[r].pc \notin {"wait", "timeout"}
        /\ \A t \in Req : ~task[t].cancel_requested

\* the step is one of call r
StepOf(r) == req'[r] # req[r]

\* a call never has waited longer than the bound
C17_State ==
    \A r \in Req : req[r].waited <= 5

\* a call whose bound has elapsed on an unfinished task stops waiting, and
\* after the timeout it goes on to the provider with the pruned turns and
\* no summary
C17_Step ==
    \A r \in Req :
        /\ (Waiting(r) /\ req[r].waited = 5 /\ StepOf(r)) => TimedOut(r)'
        /\ (TimedOut(r) /\ StepOf(r)) =>
              /\ req'[r].pc = "call"
              /\ req'[r].summary_content = None
              /\ req'[r].history = req[r].pruned

\* C17: a call that finds an unfinished regeneration waits on it at most 5
\* time units; when the bound elapses without a result the call proceeds
\* without the summary instead of waiting on
C17_WaitsAtMostFive ==
    []C17_State /\ [][C17_Step]_vars

C17_Witness ==
    \E r \in Req :
        /\ req[r].pc = "call"
        /\ req[r].awaited # 0
        /\ req[r].waited = 5
        /\ task[req[r].awaited].state = "cancelled"
        /\ req[r].summary_content = None
        /\ req[r].history = req[r].pruned

\* C18: no failure of the summarization leaves process_message: a call
\* never fails because a background regeneration raised, a call waiting on
\* the task when it fails included
C18_SummarizationFailureAbsorbed ==
    \A r \in Req : req[r].error # "summarization"

\* the regeneration failed in _generate_summary: the provider call raised
\* or the summary it returned was empty
GenerationFailed(tk) == tk.provider \in {"raised", "empty"}

\* no regeneration has written the cache
NoneFinished == \A u \in Req : task[u].state # "finished"

\* a regeneration that failed in _generate_summary has ended, and unless
\* another one has written the cache the row is the one the call that
\* started it read: none, or the same count and text
C19_State ==
    \A t \in Req :
        GenerationFailed(task[t]) =>
            /\ task[t].state = "failed"
            /\ NoneFinished =>
                  get_cached_summary(get_for_session(summaries_table).row) =
                      [summary |-> task[t].previous_summary,
                       count |-> task[t].previous_count]

\* the failing step leaves the summary rows as they are, and the next call
\* that looks the summary up does not reuse the cache: it waits on a
\* registered regeneration or starts one
C19_Step ==
    /\ \A t \in Req :
          (task'[t] # task[t] /\ GenerationFailed(task'[t])) =>
              summaries_table' = summaries_table
    /\ \A r \in Req :
          ( /\ req[r].pc = "cache" /\ StepOf(r) /\ req'[r].pc # "failed"
            /\ NoneFinished
            /\ \E t \in Req : GenerationFailed(task[t]) ) =>
              \/ req'[r].pc = "wait"
              \/ task[r].state = "none" /\ task'[r].state = "created"

\* C19: when a regeneration fails, the provider raising or the summary
\* being empty, the summary row is left exactly as it was (an absent row
\* stays absent, an existing one keeps its count and text), so the next
\* lookup goes the way of generating again
C19_FailureLeavesCache ==
    []C19_State /\ [][C19_Step]_vars

C19_Witness ==
    \E t \in Req, r \in Req :
        /\ wiring = "shared"
        /\ task[t].state = "failed"
        /\ task[t].provider = "empty"
        /\ task[t].previous_count = 11
        /\ \E row \in summaries_table : row.message_count = 11
        /\ req[r].pc = "call"
        /\ task[r].state = "created"
        /\ task[r].previous_count = 11

\* the same on a conversation that has no summary row
C19_AbsentStaysAbsent ==
    \E t \in Req, r \in Req :
        /\ wiring = "shared"
        /\ task[t].state = "failed"
        /\ task[t].provider = "raised"
        /\ summaries_table = {}
        /\ req[r].pc = "call"
        /\ task[r].state = "created"

\* a summary row over the old turns of call r: the turns it loaded but the
\* last ten
HasSummaryRow(r) ==
    \E row \in summaries_table : row.message_count = req[r].loaded_count - 10

\* call r has started its regeneration on a conversation of more than 20
\* turns that has no summary row
StartedWithoutCache(r) ==
    /\ task[r].state = "created"
    /\ req[r].loaded_count > 20
    /\ summaries_table = {}

\* a call never waits, and the one that started a regeneration does not
\* fail by it; its task is over the old turns
C20_State ==
    \A r \in Req :
        /\ req[r].pc \notin {"wait", "timeout"}
        /\ req[r].awaited = 0
        /\ task[r].state # "none" =>
              /\ req[r].error \in {"none", "provider", "tool", "persistence"}
              /\ req[r].outcome # "cancelled"
              /\ req[r].pc = "done" => req[r].outcome = "returned"
              /\ task[r].message_count = req[r].loaded_count - 10

C20_ReturnsBeforeTaskRuns ==
    \E r \in Req :
        /\ req[r].pc = "done" /\ req[r].outcome = "returned"
        /\ req[r].loaded_count = 21
        /\ task[r].state = "created"

(***************************************************************************)
(* Properties of the history handed to the provider                        *)
(***************************************************************************)
\* the i-th persisted turn of the conversation in creation order
NthPersisted(i) ==
    CHOOSE x \in messages_table :
        Cardinality({ y \in messages_table : y.created_at < x.created_at }) = i - 1

\* call r is about to make its first completion call
AtFirstCompletion(r) == req[r].pc = "call" /\ req[r].provider_calls = 0

WrittenTurns == messages_table \cup UNION { SeqToSet(req[r].tx) : r \in Req }

\* the in-memory message list of call r holds tool traffic
HoldsToolTraffic(r) ==
    \E i \in 1..Len(req[r].messages) :
        \/ req[r].messages[i].role = "tool"
        \/ req[r].messages[i].tool_calls # << >>

\* every written turn is a user or an assistant turn
C22_State ==
    \A row \in WrittenTurns : row.role \in {"user", "assistant"}

\* a step of the agent loop between the completion call and the save
\* writes nothing, and a step that writes adds at most one row
C22_Step ==
    \A r \in Req :
        /\ (req[r].pc \in {"call", "tools"} /\ req'[r].pc # "failed") =>
              req'[r].tx = req[r].tx
        /\ Len(req'[r].tx) <= Len(req[r].tx) + 1

Writes(t) == task[t].state = "committing" /\ task'[t].state = "finished"

\* a step that changes the summary rows is the commit of a task and leaves
\* the one row that task wrote
C23_Step ==
    summaries_table' # summaries_table =>
        \E t \in Req :
            /\ Writes(t)
            /\ summaries_table' =
                  { SummaryRow(task[t].message_count, task[t].summary[1]) }

\* C23: at most one summary row exists for the conversation in every
\* reachable state, after any sequence and interleaving of regenerations:
\* upsert overwrites the row there is and never adds a second one
C23_AtMostOneSummaryRow ==
    [](Cardinality(summaries_table) <= 1) /\ [][C23_Step]_vars

\* two regenerations both inserted; one committed, the index refused the
\* other
C23_Witness ==
    \E t \in Req, u \in Req :
        /\ t # u
        /\ task[t].state = "finished" /\ task[t].write = "insert"
        /\ task[u].state = "failed" /\ task[u].write = "insert"
        /\ env.deviations = MaxDeviations
        /\ Cardinality(summaries_table) = 1

\* a regeneration has overwritten the row of count 11
C23_Overwritten ==
    \E t \in Req :
        /\ task[t].state = "finished" /\ task[t].write = "update"
        /\ task[t].previous_count = 11
        /\ summaries_table = { SummaryRow(task[t].message_count, task[t].summary[1]) }

\* C24: the message_count of the cached summary never decreases from one
\* write to the next: no regeneration, under any interleaving of calls and
\* background tasks, overwrites the row with a smaller count than it held
C24_CountNeverDecreases ==
    [][\A old \in summaries_table, new \in summaries_table' :
          new.message_count >= old.message_count]_vars

(***************************************************************************)
(* Properties of the chat endpoint                                         *)
(***************************************************************************)
\* request r addresses a session id that no session has
AddressesNoSession(r) ==
    /\ req[r].session_id # None
    /\ \A s \in chat_sessions : s.id # req[r].session_id[1]

\* what the stores hold: the turns, the session timestamp, the summaries
Persisted == << messages_table, updated_at, summaries_table >>

\* a request for an id without session is rejected with 404 and has done
\* nothing: no process_message step, no row flushed, no task, no provider
\* call
C25_State ==
    \A r \in Req :
        AddressesNoSession(r) =>
            /\ req[r].pc = "rejected"
            /\ req[r].http_status = 404
            /\ req[r].user_turn = None
            /\ req[r].tx = << >>
            /\ req[r].provider_calls = 0
            /\ req[r].cache_reads = 0
            /\ task[r].state = "none"

\* the step that rejects leaves the stores as they are, and a rejected
\* request takes no further step
C25_Step ==
    \A r \in Req :
        /\ (req[r].pc = "idle" /\ req'[r].pc = "rejected") =>
              /\ Persisted' = Persisted
              /\ task' = task
              /\ summarization_tasks' = summarization_tasks
        /\ req[r].pc = "rejected" => req'[r] = req[r]

\* C25: a chat request for a conversation id that does not exist is
\* rejected as not found before process_message is invoked: no user turn,
\* assistant turn or summary is persisted and the completion provider is
\* not called
C25_UnknownSessionRejected ==
    []C25_State /\ [][C25_Step]_vars

\* the request for the unknown id has been answered with 404 and the 20
\* turns of the conversation are all there is
C25_Witness ==
    \E r \in Req :
        /\ req[r].pc = "rejected"
        /\ req[r].session_id = Some(UNKNOWN_SESSION)
        /\ req[r].http_status = 404
        /\ messages_table = PriorTurns(20)
        /\ summaries_table = {}

(***************************************************************************)
(* Properties of the optimised history                                     *)
(***************************************************************************)
\* call r resolved a summary text for the old turns of its pruned history
SummaryResolved(r) ==
    /\ req[r].pc \in InLoop
    /\ Len(req[r].pruned) > 20
    /\ Truthy(req[r].summary_content)

\* the i-th of the last ten pruned turns of call r
RecentTurn(r, i) == req[r].pruned[Len(req[r].pruned) - 10 + i]

SUMMARY_OPEN == "[Context from earlier in conversation: "

C26_AssistantFirst ==
    \E r \in Req :
        /\ SummaryResolved(r)
        /\ RecentTurn(r, 1).role = "assistant"
        /\ req[r].history = recent_messages(req[r].pruned)

\* the text part occurs in text
ContainsText(text, part) ==
    \E k \in 0..(Len(text) - Len(part)) : SubSeq(text, k + 1, k + Len(part)) = part

\* C27: on a conversation built by sequential process_message calls, user
\* and assistant turns alternating, whenever a summary text is resolved for
\* the old turns the list sent to the completion provider contains it
C27_SummaryReachesProvider ==
    \A r \in Req :
        SummaryResolved(r) =>
            \E i \in 1..Len(req[r].messages) :
                ContainsText(req[r].messages[i].content, req[r].summary_content[1])

\* the number of turns of the history of call r after pruning
PrunedCount(r) == Len(prune_tool_messages(req[r].loaded))

\* C28: load_conversation_history reports the history as optimised exactly
\* when the pruned turn count exceeds SUMMARIZE_THRESHOLD = 20; the flag is
\* false when at most 20 turns are loaded, and when pruning brought the
\* count to at most 20, in which case the pruned sequence is returned
C28_OptimizedFlag ==
    \A r \in Req :
        req[r].pc \in InLoop =>
            /\ req[r].was_summarized <=> PrunedCount(r) > 20
            /\ Len(req[r].loaded) <= 20 =>
                  ~req[r].was_summarized /\ req[r].history = req[r].loaded
            /\ (Len(req[r].loaded) > 20 /\ PrunedCount(r) <= 20) =>
                  /\ ~req[r].was_summarized
                  /\ req[r].history = prune_tool_messages(req[r].loaded)

\* 22 turns were loaded, five of them tool results, and pruning left 20
C28_Witness ==
    \E r \in Req :
        /\ req[r].pc = "call"
        /\ Len(req[r].loaded) = 22 /\ Len(req[r].history) = 20
        /\ ~req[r].was_summarized

\* more than 20 turns are left after pruning and the flag is set
C28_Flagged ==
    \E r \in Req :
        /\ req[r].pc = "call"
        /\ Len(req[r].loaded) = 25 /\ PrunedCount(r) = 23
        /\ req[r].was_summarized

\* the tool-role turns of a sequence of turns, oldest first
ToolTurns(turns) == SelectSeq(turns, LAMBDA msg : msg.role = "tool")

\* the other turns, oldest first
OtherTurns(turns) == SelectSeq(turns, LAMBDA msg : msg.role # "tool")

\* the smaller of two numbers
Min(a, b) == IF a <= b THEN a ELSE b

\* C29: _prune_tool_messages returns its input with the order kept, every
\* turn that is not a tool result, and exactly the min(k, 3) most recent of
\* the k tool results; it is the identity on sequences with at most 3 tool
\* results and it is idempotent
C29_PruneKeepsThreeNewest ==
    \A r \in Req :
        LET messages == req[r].loaded
            pruned == prune_tool_messages(messages)
            k == Len(ToolTurns(messages))
        IN  /\ Ascending(pruned) \/ Len(pruned) <= 1
            /\ SeqToSet(pruned) \subseteq SeqToSet(messages)
            /\ OtherTurns(pruned) = OtherTurns(messages)
            /\ Len(ToolTurns(pruned)) = Min(k, 3)
            /\ ToolTurns(pruned) =
                  SubSeq(ToolTurns(messages), k - Min(k, 3) + 1, k)
            /\ k <= 3 => pruned = messages
            /\ prune_tool_messages(pruned) = pruned

\* 25 turns with five tool results were loaded and the three newest kept
C29_Witness ==
    \E r \in Req :
        /\ Len(req[r].loaded) = 25
        /\ Len(ToolTurns(req[r].loaded)) = 5
        /\ req[r].pruned = prune_tool_messages(req[r].loaded)
        /\ Len(req[r].pruned) = 23
        /\ { msg.id : msg \in SeqToSet(ToolTurns(req[r].pruned)) } = {8, 11, 14}

\* the cache lookup of call r finds nothing it can reuse
CannotReuse(r) ==
    \/ summaries_table = {}
    \/ /\ Cardinality(summaries_table) = 1
       /\ \/ CachedRow.summary_text = << >>
          \/ OldCount(r) - CachedRow.message_count >= 10

\* a lookup that cannot reuse the cache and finds an unfinished
\* regeneration registered waits on it and starts none; when the awaited
\* task has finished within the bound the call goes on with the summary
\* that task returned, and no task is started or cancelled
C30_Step ==
    \A r \in Req :
        /\ (ResolvesSummary(r) /\ CannotReuse(r) /\ InFlight(r)) =>
              /\ req'[r].pc = "wait"
              /\ req'[r].awaited = summarization_tasks[manager_of(r)][1]
              /\ task' = task
              /\ summarization_tasks' = summarization_tasks
        /\ ( /\ req[r].pc = "wait" /\ StepOf(r)
             /\ task[req[r].awaited].state = "finished" ) =>
              /\ req[r].waited <= 5
              /\ req'[r].pc = "call"
              /\ Truthy(req'[r].summary_content)
              /\ req'[r].summary_content = task[req[r].awaited].summary
              /\ req'[r].history =
                    summarized_history(req[r].pruned, task[req[r].awaited].summary)
              /\ task' = task
              /\ summarization_tasks' = summarization_tasks

\* C30: when the cache cannot be reused and an unfinished regeneration is
\* registered for the conversation that completes successfully within the
\* bound of 5 units, the resolve step returns the summary text of that task
\* and starts no new regeneration
C30_UsesInFlightResult ==
    [][C30_Step]_vars

\* a call waited two units on the regeneration of another call and goes on
\* with its summary, having started no task
C30_Witness ==
    \E r \in Req :
        /\ req[r].pc = "call"
        /\ req[r].awaited \notin {0, r}
        /\ req[r].waited = 2
        /\ task[req[r].awaited].state = "finished"
        /\ req[r].summary_content = task[req[r].awaited].summary
        /\ task[r].state = "none"

\* the request path of call r past the summary resolution: the provider
\* answers, the statements and the commit go through
LoopStep(r) ==
    \/ CompleteFinal(r)
    \/ SaveAssistant(r)
    \/ Commit(r)

\* the provider and the database answer every call that awaits them; no
\* step of a background task is required
LoopFairness == \A r \in Req : WF_vars(LoopStep(r))

\* the stores on which the first call finds no summary it can reuse: over
\* 20 turns with the new one, and no row or a row ten or more turns behind
RegenerationStores ==
    { st \in InitialStores :
        /\ st.n + 1 > SUMMARIZE_THRESHOLD
        /\ \A row \in st.cache :
              ~ReusesCache(Some(row.summary_text), row.message_count,
                           st.n + 1 - MAX_RECENT_MESSAGES) }

\* the calls of Spec on such a store, the provider answering each with a
\* final text
RegenerationInit ==
    /\ \E store \in RegenerationStores :
          /\ messages_table = PriorTurns(store.n)
          /\ updated_at = store.n
          /\ summaries_table = store.cache
          /\ clock = store.n
    /\ wiring \in {"per_request", "shared"}
    /\ req = [r \in Req |-> NewRequest]
    /\ summarization_tasks = [m \in Req |-> None]
    /\ task = [t \in Req |-> NewTask]
    /\ env = [calls |-> MaxCalls, rounds |-> 0, deviations |-> MaxDeviations]

FairLoopSpec == RegenerationInit /\ [][SharedNext]_vars /\ LoopFairness

\* the step of call r reaches _generate_new_summary: the cache lookup found
\* nothing to reuse and no task to wait on, or the wait timed out
StartsRegeneration(r) ==
    \/ ResolvesSummary(r) /\ CannotReuse(r) /\ ~InFlight(r)
    \/ req[r].pc = "timeout" /\ StepOf(r)

\* a step that reaches _generate_new_summary creates and registers the task
\* of the call and goes on, without a summary, over the full pruned turns
C31_Step ==
    \A r \in Req :
        StartsRegeneration(r) =>
            /\ task'[r].state = "created"
            /\ summarization_tasks'[manager_of(r)] = Some(r)
            /\ req'[r].pc = "call"
            /\ req'[r].summary_content = None
            /\ req'[r].history = req[r].pruned
            /\ req'[r].messages = to_openai_messages(req[r].pruned, TRUE)
            /\ Len(req'[r].messages) = req[r].loaded_count + 1

\* a call never waits on the task it started
C31_State ==
    \A r \in Req : req[r].awaited # r

\* call r has started its regeneration and the task has not run
Regenerating(r) == req[r].pc = "call" /\ task[r].state = "created"

\* C31: when no usable summary is obtained synchronously the resolve step
\* starts a new background regeneration and returns absent without awaiting
\* it: the call proceeds with the full pruned turns (a stale cached summary
\* is not used), and process_message terminates whether or not the
\* background task ever completes
C31_StartsAndProceeds ==
    /\ []C31_State
    /\ [][C31_Step]_vars
    /\ \A r \in Req : Regenerating(r) ~> req[r].pc \in {"done", "failed"}

\* a call that found a stale summary row returned over all 31 turns while
\* its task has not run
C31_Witness ==
    \E r \in Req :
        /\ req[r].pc = "done" /\ req[r].outcome = "returned"
        /\ req[r].loaded_count = 31
        /\ req[r].summary_content = None
        /\ req[r].cache_reads = 1
        /\ summaries_table = { SummaryRow(11, Str("summary-11")) }
        /\ task[r].state = "created"

\* the text _generate_summary of task tk returned
GeneratedText(tk) ==
    provider_summary(summary_prompt(tk.messages, tk.previous_summary, tk.previous_count))

\* the step ends task t with success
Succeeds(t) == task[t].state # "finished" /\ task'[t].state = "finished"

\* a task succeeds only by the commit of its own session, which leaves the
\* one row of the conversation holding the task's old-turn count and the
\* generated text, whatever row there was, and touches neither the turns
\* nor any call and its transaction
C32_Step ==
    \A t \in Req :
        Succeeds(t) =>
            /\ task[t].state = "committing"
            /\ task[t].message_count = Len(task[t].messages)
            /\ task[t].summary = Some(GeneratedText(task[t]))
            /\ summaries_table' = { SummaryRow(Len(task[t].messages), GeneratedText(task[t])) }
            /\ task[t].write = "update" => Cardinality(summaries_table) = 1
            /\ task[t].write = "insert" => summaries_table = {}
            /\ UNCHANGED << messages_table, updated_at, req >>

\* C32: when a background regeneration started with old-turn count n
\* succeeds, the summary row of the conversation afterwards has
\* message_count = n and the generated text as summary_text, whether or not
\* a row existed before (an existing row is overwritten in place), and the
\* write is committed in the task's own transaction, independent of the
\* transaction of the request
C32_SuccessWritesRow ==
    [][C32_Step]_vars

\* the call that started the regeneration over 21 old turns raised and
\* rolled back; its task overwrote the row of count 11
C32_Witness ==
    \E r \in Req :
        /\ req[r].outcome = "raised"
        /\ req[r].loaded_count = 31
        /\ task[r].state = "finished" /\ task[r].write = "update"
        /\ task[r].previous_count = 11
        /\ summaries_table = { SummaryRow(21, GeneratedText(task[r])) }
        /\ \A row \in messages_table : row.id <= 30

\* a task inserted the row over 11 old turns while its call is still at
\* the provider, its transaction open
C32_InsertedBeforeCommit ==
    \E r \in Req :
        /\ req[r].pc = "call" /\ req[r].tx # << >>
        /\ task[r].state = "finished" /\ task[r].write = "insert"
        /\ summaries_table = { SummaryRow(11, GeneratedText(task[r])) }

\* C33: the registry owns every regeneration in flight for its whole
\* lifetime: in every reachable state each unfinished background task that
\* was not cancelled is the task the registry of its manager holds for the
\* conversation; the cleanup of a cancelled task never removes the entry of
\* the task that replaced it
C33_RegistryOwnsLiveTasks ==
    \A t \in LiveTasks : summarization_tasks[task[t].manager] = Some(t)

\* the registry entries that refer to task t
EntriesOf(t) == { m \in Req : summarization_tasks[m] = Some(t) }

\* C34: the registry entry of a conversation is cleared in all outcomes:
\* once a background regeneration has finished by success, failure or
\* cancellation, the registry holds no entry that refers to the finished
\* task
C34_FinishedTaskUnregistered ==
    \A t \in Req : TaskDone(t) => EntriesOf(t) = {}

\* all tasks of one registry have ended, one by success and one by
\* cancellation, and the registry is empty
C34_Witness ==
    /\ wiring = "shared"
    /\ \E t \in Req : task[t].state = "finished"
    /\ \E t \in Req : task[t].state = "cancelled"
    /\ \A t \in Req : TaskDone(t)
    /\ \A m \in Req : summarization_tasks[m] = None

\* a task was cancelled before its first step, by the start that replaced
\* its entry
C34_CancelledBeforeItRan ==
    \E t \in Req :
        /\ task[t].state = "cancelled" /\ task[t].provider = "none"
        /\ summarization_tasks[task[t].manager] # None

\* the step belongs to the request path of some call: it changes the
\* locals or the transaction of a call
RequestPathStep == req' # req

\* a step of the request path leaves the summary rows as they are, and the
\* rows change only by the commit of a background task
C35_Step ==
    /\ RequestPathStep => summaries_table' = summaries_table
    /\ summaries_table' # summaries_table =>
          /\ \E t \in Req : Writes(t)
          /\ req' = req

\* C35: the summary cache row of a conversation is mutated only by
\* background regeneration tasks: the request path of process_message
\* (history load, cache lookup, agent loop, commit or rollback) only reads
\* it and leaves it unchanged
C35_OnlyTasksWriteSummary ==
    [][C35_Step]_vars

\* a call read the stale row of count 11, started a regeneration and
\* returned; the row is as it was read
C35_Witness ==
    \E r \in Req :
        /\ req[r].pc = "done" /\ req[r].outcome = "returned"
        /\ req[r].cache_reads = 1
        /\ req[r].loaded_count = 31
        /\ task[r].state \in {"created", "generating", "caching", "committing"}
        /\ summaries_table = { SummaryRow(11, Str("summary-11")) }

\* a call read the row and then raised and rolled back; the row is as it
\* was read
C35_RolledBack ==
    \E r \in Req :
        /\ req[r].outcome = "raised" /\ req[r].cache_reads = 1
        /\ req[r].loaded_count = 23
        /\ summaries_table = { SummaryRow(11, Str("summary-11")) }

\* the step ends the cache write of task t, which passed its existence
\* check, with no failure injected and no cancellation
EndsWrite(t) ==
    /\ task[t].state = "committing" /\ task'[t].state # "committing"
    /\ ~task[t].cancel_requested
    /\ env' = env

\* every cache write that ends, ends committed, its row the one row of the
\* conversation
C36_Step ==
    \A t \in Req :
        EndsWrite(t) =>
            /\ task'[t].state = "finished"
            /\ summaries_table' = { SummaryRow(task[t].message_count, task[t].summary[1]) }

\* C36: when two regenerations of the same conversation overlap and both
\* generate a summary, the last writer wins: both cache writes complete
\* without error and the row ends up holding the count and text of
\* whichever committed last, also when no row existed when both performed
\* their existence check
C36_LastWriterWins ==
    [][C36_Step]_vars

\* two overlapping tasks that both found a row both committed their update
C36_BothUpdated ==
    \E t \in Req : \E u \in Req \ {t} :
        /\ task[t].state = "finished" /\ task[t].write = "update"
        /\ task[u].state = "finished" /\ task[u].write = "update"

\* the prompt task t builds from what it was started with
PromptOf(t) ==
    summary_prompt(task[t].messages, task[t].previous_summary, task[t].previous_count)

\* the turns of a sequence from position first on (positions from 1)
TurnsFrom(turns, first) == [i \in 1..(Len(turns) - first + 1) |-> turns[first + i - 1]]

\* task t was given a non-empty previous summary that covers some turns
GivenPrevious(t) ==
    /\ task[t].previous_summary # None
    /\ task[t].previous_summary[1] # << >>
    /\ task[t].previous_count > 0

\* a started task builds the incremental prompt exactly when it was given a
\* previous summary, over that summary and the old turns past the covered
\* ones; otherwise the full prompt over all old turns, which are user and
\* assistant turns; the summary it obtains is the provider's answer to it
C37_State ==
    \A t \in Req :
        task[t].state # "none" =>
            /\ PromptOf(t).mode \in {"incremental", "full"}
            /\ PromptOf(t).mode = "incremental" <=> GivenPrevious(t)
            /\ GivenPrevious(t) =>
                  /\ task[t].previous_count < Len(task[t].messages)
                  /\ PromptOf(t).previous_summary = task[t].previous_summary
                  /\ PromptOf(t).turns =
                        TurnsFrom(task[t].messages, task[t].previous_count + 1)
                  /\ Len(PromptOf(t).turns) =
                        task[t].message_count - task[t].previous_count
            /\ ~GivenPrevious(t) =>
                  /\ PromptOf(t).previous_summary = None
                  /\ PromptOf(t).turns = task[t].messages
                  /\ \A i \in 1..Len(task[t].messages) :
                        task[t].messages[i].role \in {"user", "assistant"}
            /\ task[t].provider = "text" =>
                  task[t].summary = Some(provider_summary(PromptOf(t)))

\* the task a call starts is given the old turns of the call and the cached
\* summary and count the call read, or no summary and count 0 when the
\* cached text is absent or empty
C37_Step ==
    \A r \in Req :
        Creates(r) =>
            /\ task'[r].messages = old_messages(req'[r].pruned)
            /\ task'[r].message_count = Len(old_messages(req'[r].pruned))
            /\ IF Truthy(req'[r].cached_summary)
               THEN /\ task'[r].previous_summary = req'[r].cached_summary
                    /\ task'[r].previous_count = req'[r].cached_count
               ELSE /\ task'[r].previous_summary = None
                    /\ task'[r].previous_count = 0

\* C37: a regeneration uses the incremental prompt exactly when it was
\* given a non-empty previous summary with previousCount > 0, and then
\* includes exactly the old turns at positions previousCount..oldCount-1
\* (none already covered, none skipped) together with the previous summary;
\* otherwise it uses the full prompt over all old user and assistant turns
C37_IncrementalOrFullPrompt ==
    []C37_State /\ [][C37_Step]_vars

\* a task given the summary of 11 turns and 21 old turns obtained a summary
\* from the incremental prompt over the turns 12 to 21
C37_Witness ==
    \E t \in Req :
        /\ task[t].provider = "text"
        /\ task[t].previous_count = 11 /\ task[t].message_count = 21
        /\ PromptOf(t).mode = "incremental"
        /\ Len(PromptOf(t).turns) = 10
        /\ PromptOf(t).turns[1].id = 12 /\ PromptOf(t).turns[10].id = 21

\* a task given no previous summary obtained one from the full prompt over
\* the 11 old turns
C37_Full ==
    \E t \in Req :
        /\ task[t].provider = "text"
        /\ task[t].previous_summary = None
        /\ PromptOf(t).mode = "full" /\ Len(PromptOf(t).turns) = 11

\* the turns of user or assistant role, in the order of the sequence
UserAndAssistantTurns(turns) ==
    SelectSeq(turns, LAMBDA msg : msg.role \in {"user", "assistant"})

\* C38: MessageFormatter.to_openai_messages, asked for the system
\* directive, returns the directive first and then one message for each
\* input turn of role user or assistant, in input order and with the same
\* role and content; turns of any other role are skipped and no
\* tool-invocation metadata is reconstructed
C38_FormatsUserAndAssistantTurns ==
    \A r \in Req :
        AtFirstCompletion(r) =>
            LET kept == UserAndAssistantTurns(req[r].history)
                messages == req[r].messages
            IN  /\ Len(messages) = Len(kept) + 1
                /\ messages[1].role = "system"
                /\ messages[1].content = SYSTEM_PROMPT
                /\ \A j \in 1..Len(kept) :
                      /\ messages[j + 1].role = kept[j].role
                      /\ messages[j + 1].content = kept[j].content
                /\ \A i \in 1..Len(messages) :
                      /\ messages[i].tool_calls = << >>
                      /\ messages[i].tool_call_id = 0
                      /\ messages[i].role # "tool"

\* a history of 20 turns, 5 of them tool turns, was formatted into the
\* directive and 15 messages
C38_Witness ==
    \E r \in Req :
        /\ AtFirstCompletion(r)
        /\ Len(req[r].history) = 20
        /\ Len(ToolTurns(req[r].history)) = 5
        /\ Len(req[r].messages) = 16

\* the step is the history read of call r
ReadsHistory(r) == req[r].pc = "load" /\ req'[r].loaded_count > 0

\* the history read of a call returns the committed turns in creation
\* order, followed by the user turn the call has just appended
C39_Step ==
    \A r \in Req :
        ReadsHistory(r) =>
            req'[r].loaded = OrderByCreatedAt(messages_table) \o << req[r].user_turn[1] >>

\* C39: across requests to the same conversation, the history read at the
\* start of the optimisation returns, in creation order, every turn written
\* by requests that committed before the read, followed by the request's
\* own just-appended user turn; turns of a request that rolled back are
\* never seen
C39_CommittedPrefixThenOwnTurn ==
    [][C39_Step]_vars

\* the history read of a call returns every committed turn and the call's
\* own user turn, in creation order, and no turn of another transaction
C39_SeesCommittedAndOwn ==
    \A r \in Req :
        req[r].loaded # << >> =>
            /\ Ascending(req[r].loaded)
            /\ req[r].user_turn[1] \in SeqToSet(req[r].loaded)
            /\ \A q \in Req \ {r} :
                  req[q].outcome = "raised" /\ req[q].user_turn # None =>
                      req[q].user_turn[1] \notin SeqToSet(req[r].loaded)

\* the number of committed turns of the conversation
CommittedTurns == Cardinality(messages_table)

\* C40: in every reachable state the cached summary of a conversation
\* covers only turns that are persisted and outside the recent window: its
\* message_count never exceeds the number of committed turns of the
\* conversation minus (MAX_RECENT - 1), also when the request that started
\* the regeneration later rolled back
C40_SummaryCoversCommittedOldTurns ==
    /\ \A row \in summaries_table :
          row.message_count <= CommittedTurns - (MAX_RECENT_MESSAGES - 1)
    /\ \A t \in Req :
          task[t].state # "none" =>
              /\ SeqToSet(task[t].messages) \subseteq messages_table
              /\ task[t].message_count <= CommittedTurns - (MAX_RECENT_MESSAGES - 1)

\* the call that started the regeneration rolled back and its task wrote
\* the row: it covers 11 of the 20 committed turns
C40_Witness ==
    \E r \in Req :
        /\ req[r].outcome = "raised"
        /\ task[r].state = "finished"
        /\ CommittedTurns = 20
        /\ summaries_table = { SummaryRow(11, task[r].summary[1]) }

====
